---------------------------- MODULE Spec2Model ----------------------------
(***************************************************************************)
(* Swiss heavy-vehicle road charges (flaskCarculator/swiss_cargo_costs.py) *)
(*                                                                         *)
(* calculate_lsva_charge_period (federal LSVA/RPLP) and canton_truck_tax   *)
(* (cantonal annual tax) are modelled as two handlers working on a         *)
(* vehicle_data dictionary.                                                *)
(*                                                                         *)
(* Conventions                                                             *)
(*  - A Python str is a sequence of one-character strings, so that strip,  *)
(*    lower, replace, regular expressions and float() are computed.        *)
(*  - A Python float is an exact rational [n, d] in lowest terms (d > 0).  *)
(*    Binary rounding error of the floating-point operations is not        *)
(*    modelled; round(), int() and ceil() are.                             *)
(*  - A dict is a record plus the set "keys" of the keys it holds.         *)
(***************************************************************************)
EXTENDS Integers, Sequences, FiniteSets, TLC

VARIABLES
    vd,       \* vehicle_data of the call in progress
    engine,   \* "idle" | "federal" | "cantonal": the entry point called
    pc,       \* position inside the handler
    loc,      \* the handler's local variables
    ret,      \* the value returned (meaningful when pc = "returned")
    err       \* the ValueError raised (meaningful when pc = "raised")

vars == <<vd, engine, pc, loc, ret, err>>

----------------------------------------------------------------------------
(* Exact rational arithmetic                                               *)

Abs(x) == IF x < 0 THEN -x ELSE x

RECURSIVE GCD(_, _)
GCD(a, b) == IF b = 0 THEN a ELSE GCD(b, a % b)

Rat(n, d) ==
    LET s == IF d < 0 THEN -1 ELSE 1
        g == GCD(Abs(n), Abs(d))
    IN  [n |-> (s * n) \div g, d |-> (s * d) \div g]

RInt(k) == [n |-> k, d |-> 1]

RAdd(a, b) ==
    LET g == GCD(a.d, b.d)
    IN  Rat(a.n * (b.d \div g) + b.n * (a.d \div g), (a.d \div g) * b.d)

RMul(a, b) ==
    LET g1 == GCD(Abs(a.n), b.d)
        g2 == GCD(Abs(b.n), a.d)
    IN  Rat((a.n \div g1) * (b.n \div g2), (a.d \div g2) * (b.d \div g1))

RNeg(a) == [n |-> -a.n, d |-> a.d]

RSub(a, b) == RAdd(a, RNeg(b))

RDiv(a, b) == RMul(a, Rat(b.d, b.n))

RLe(a, b) ==
    LET g == GCD(a.d, b.d)
    IN  a.n * (b.d \div g) <= b.n * (a.d \div g)

RLt(a, b) ==
    LET g == GCD(a.d, b.d)
    IN  a.n * (b.d \div g) < b.n * (a.d \div g)

RZero == RInt(0)

\* math.floor
Floor(a) == IF a.n >= 0 THEN a.n \div a.d ELSE -(((-a.n) + a.d - 1) \div a.d)

\* math.ceil
Ceil(a) == -Floor(RNeg(a))

\* int(x): truncation towards zero
Trunc(a) == IF a.n >= 0 THEN a.n \div a.d ELSE -((-a.n) \div a.d)

\* round(x): to the nearest integer, ties to even
RoundHalfEven(a) ==
    LET f  == Floor(a)
        r2 == 2 * (a.n - f * a.d)
    IN  IF r2 < a.d THEN f
        ELSE IF r2 > a.d THEN f + 1
        ELSE IF f % 2 = 0 THEN f ELSE f + 1

RECURSIVE Pow10(_)
Pow10(k) == IF k = 0 THEN 1 ELSE 10 * Pow10(k - 1)

\* The first k decimals of r / d (0 <= r < d) and the remainder, by long division
RECURSIVE LongDiv(_, _, _, _)
LongDiv(q, r, d, k) ==
    IF k = 0 THEN [q |-> q, r |-> r]
    ELSE LongDiv(10 * q + ((10 * r) \div d), (10 * r) % d, d, k - 1)

RoundAbs(a, ndigits) ==
    LET st == LongDiv(0, a.n % a.d, a.d, ndigits)
        up == 2 * st.r > a.d \/ (2 * st.r = a.d /\ st.q % 2 = 1)
    IN  RAdd(RInt(a.n \div a.d), Rat(st.q + (IF up THEN 1 ELSE 0), Pow10(ndigits)))

\* round(x, ndigits): to the nearest multiple of 10^-ndigits, ties to even
Round(a, ndigits) ==
    IF a.n >= 0 THEN RoundAbs(a, ndigits) ELSE RNeg(RoundAbs(RNeg(a), ndigits))

RECURSIVE RSum(_)
RSum(s) == IF s = <<>> THEN RZero ELSE RAdd(Head(s), RSum(Tail(s)))

----------------------------------------------------------------------------
(* Strings as sequences of characters                                      *)

UpperChars == <<"A","B","C","D","E","F","G","H","I","J","K","L","M",
                "N","O","P","Q","R","S","T","U","V","W","X","Y","Z">>
LowerChars == <<"a","b","c","d","e","f","g","h","i","j","k","l","m",
                "n","o","p","q","r","s","t","u","v","w","x","y","z">>
DigitChars == <<"0","1","2","3","4","5","6","7","8","9">>

DigitSet == {DigitChars[i] : i \in 1..Len(DigitChars)}
DigitMap == [c \in DigitSet |-> (CHOOSE i \in 1..Len(DigitChars) : DigitChars[i] = c) - 1]
LowerMap ==
    [c \in {UpperChars[i] : i \in 1..Len(UpperChars)} |->
        LowerChars[CHOOSE i \in 1..Len(UpperChars) : UpperChars[i] = c]]
UpperMap ==
    [c \in {LowerChars[i] : i \in 1..Len(LowerChars)} |->
        UpperChars[CHOOSE i \in 1..Len(LowerChars) : LowerChars[i] = c]]

IsDigit(c) == c \in DigitSet
DigitVal(c) == DigitMap[c]
IsSpace(c) == c = " "

LowerChar(c) == IF c \in DOMAIN LowerMap THEN LowerMap[c] ELSE c
UpperChar(c) == IF c \in DOMAIN UpperMap THEN UpperMap[c] ELSE c

\* str.lower, str.upper
Lower(s) == [i \in 1..Len(s) |-> LowerChar(s[i])]
Upper(s) == [i \in 1..Len(s) |-> UpperChar(s[i])]

RECURSIVE LStrip(_)
LStrip(s) == IF s # <<>> /\ IsSpace(Head(s)) THEN LStrip(Tail(s)) ELSE s

RECURSIVE RStrip(_)
RStrip(s) ==
    IF s # <<>> /\ IsSpace(s[Len(s)]) THEN RStrip(SubSeq(s, 1, Len(s) - 1)) ELSE s

\* str.strip
Strip(s) == LStrip(RStrip(s))

\* s.replace(c, "") for a single character c
Remove(s, c) == SelectSeq(s, LAMBDA x : x # c)

\* s.replace(c, r) for single characters c and r
Replace(s, c, r) == [i \in 1..Len(s) |-> IF s[i] = c THEN r ELSE s[i]]

\* s.endswith(c) for a single character c
EndsWith(s, c) == s # <<>> /\ s[Len(s)] = c

\* sub in s, for strings
Contains(s, sub) ==
    \E i \in 1..(Len(s) - Len(sub) + 1) : SubSeq(s, i, i + Len(sub) - 1) = sub

AllDigits(s) == \A i \in 1..Len(s) : IsDigit(s[i])

RECURSIVE DigitsToInt(_)
DigitsToInt(s) ==
    IF s = <<>> THEN 0
    ELSE 10 * DigitsToInt(SubSeq(s, 1, Len(s) - 1)) + DigitVal(s[Len(s)])

\* The value of the decimal literal <int digits> [ "." <fraction digits> ]
DecimalValue(ip, fp) == Rat(DigitsToInt(ip \o fp), Pow10(Len(fp)))

\* Index of the last character of the maximal run of digits starting at i
\* (i - 1 when s[i] is no digit).
RECURSIVE DigitRunEnd(_, _)
DigitRunEnd(s, i) ==
    IF i <= Len(s) /\ IsDigit(s[i]) THEN DigitRunEnd(s, i + 1) ELSE i - 1

RECURSIVE SkipSpaces(_, _)
SkipSpaces(s, i) ==
    IF i <= Len(s) /\ IsSpace(s[i]) THEN SkipSpaces(s, i + 1) ELSE i

\* float(s) for the literals  [+-] digits [ . digits* ]  and  [+-] . digits ;
\* anything else raises ValueError (ok = FALSE).  Exponents, underscores,
\* "inf" and "nan" are outside the alphabet of the inputs modelled.
PyFloat(s0) ==
    LET s    == Strip(s0)
        neg  == s # <<>> /\ Head(s) = "-"
        body == IF s # <<>> /\ Head(s) \in {"-", "+"} THEN Tail(s) ELSE s
        e    == DigitRunEnd(body, 1)
        ip   == SubSeq(body, 1, e)
        rest == SubSeq(body, e + 1, Len(body))
        fp   == IF rest # <<>> /\ Head(rest) = "." THEN Tail(rest) ELSE <<>>
        ok   == /\ rest = <<>> \/ Head(rest) = "."
                /\ AllDigits(fp)
                /\ Len(ip) + Len(fp) > 0
        v    == DecimalValue(ip, fp)
    IN  [ok |-> ok, v |-> IF ~ok THEN RZero ELSE IF neg THEN RNeg(v) ELSE v]


----------------------------------------------------------------------------
(* Python values of vehicle_data                                           *)

\* range(a, b) as a list
RECURSIVE Range(_, _)
Range(a, b) == IF a >= b THEN <<>> ELSE <<a>> \o Range(a + 1, b)

\* d.get(k, default)
Get(d, k, default) == IF k \in d.keys THEN d[k] ELSE default

S_BEV    == <<"B","E","V">>
S_FCEV   == <<"F","C","E","V">>
S_ICEV_d == <<"I","C","E","V","-","d">>
S_ICEV_g == <<"I","C","E","V","-","g">>
S_HEV_d  == <<"H","E","V","-","d">>
S_PHEV_d == <<"P","H","E","V","-","d">>

S_Euro5  == <<"E","u","r","o"," ","5">>
S_Euro6  == <<"E","u","r","o"," ","6">>
S_EuroVI == <<"E","u","r","o"," ","V","I">>

\* A 'size' value: a str (num = FALSE) or an int/float (num = TRUE); s is
\* str(value) in both cases.
StrVal(s) == [num |-> FALSE, s |-> s]
NumVal(s) == [num |-> TRUE, s |-> s]

----------------------------------------------------------------------------
(* calculate_lsva_charge_period                                            *)

FederalRequired == {"powertrain", "size", "kilometers per year",
                    "purchase_year", "resale_year"}

\* Tariffs (CHF per tonne-km)
CAT_I   == Rat(326, 10000)
CAT_II  == Rat(282, 10000)
CAT_III == Rat(239, 10000)

\* Variant of the schedule that ends a year early (2035 left out)
rebate_until_2034 ==
    (2029 :> Rat(7, 10)) @@ (2030 :> Rat(6, 10)) @@ (2031 :> Rat(5, 10)) @@
    (2032 :> Rat(4, 10)) @@ (2033 :> Rat(3, 10)) @@ (2034 :> Rat(2, 10))

\* BEV/FCEV rebate schedule (fraction)
bev_fcev_rebate ==
    (2029 :> Rat(7, 10)) @@ (2030 :> Rat(6, 10)) @@ (2031 :> Rat(5, 10)) @@
    (2032 :> Rat(4, 10)) @@ (2033 :> Rat(3, 10)) @@ (2034 :> Rat(2, 10)) @@
    (2035 :> Rat(1, 10))

\* Variant with a powertrain more than the four the code lists
FederalICE_with_petrol ==
    {S_ICEV_d, S_ICEV_g, S_HEV_d, S_PHEV_d, <<"I","C","E","V","-","p">>}

\* The powertrains treated like ICE
FederalICE == {S_ICEV_d, S_ICEV_g, S_HEV_d, S_PHEV_d}

\* Variant with the threshold of Euro VI a year late
modern_after_2014(manuf_year) == manuf_year > 2014

modern_vi_vii(manuf_year) == manuf_year >= 2014

\* Variant that charges the rebate's share instead of what the rebate leaves
rate_rebate_as_share(pt, modern, y) ==
    IF pt \in {S_BEV, S_FCEV} THEN
        IF y <= 2028 THEN [ok |-> TRUE, v |-> RZero]
        ELSE IF 2029 <= y /\ y <= 2035 THEN
            LET rebate == IF y \in DOMAIN bev_fcev_rebate
                          THEN bev_fcev_rebate[y] ELSE RZero
            IN  [ok |-> TRUE, v |-> RMul(CAT_III, rebate)]
        ELSE [ok |-> TRUE, v |-> CAT_III]
    ELSE IF modern /\ pt \in FederalICE THEN
        [ok |-> TRUE, v |-> IF y <= 2028 THEN CAT_III ELSE CAT_II]
    ELSE IF pt \in FederalICE THEN
        [ok |-> TRUE, v |-> CAT_I]
    ELSE [ok |-> FALSE, v |-> RZero]

\* The rate of year y, or the ValueError of an unknown powertrain (ok = FALSE).
rate_chf_per_tkm_for_year(pt, modern, y) ==
    IF pt \in {S_BEV, S_FCEV} THEN
        IF y <= 2028 THEN [ok |-> TRUE, v |-> RZero]
        ELSE IF 2029 <= y /\ y <= 2035 THEN
            LET rebate == IF y \in DOMAIN bev_fcev_rebate
                          THEN bev_fcev_rebate[y] ELSE RZero
            IN  [ok |-> TRUE, v |-> RMul(CAT_III, RSub(RInt(1), rebate))]
        ELSE [ok |-> TRUE, v |-> CAT_III]
    ELSE IF modern /\ pt \in FederalICE THEN
        [ok |-> TRUE, v |-> IF y <= 2028 THEN CAT_III ELSE CAT_II]
    ELSE IF pt \in FederalICE THEN
        [ok |-> TRUE, v |-> CAT_I]
    ELSE [ok |-> FALSE, v |-> RZero]

\* re.search(r"([0-9]+(?:\.[0-9]+)?)\s*t", s): a match starting at i takes
\* the maximal run of digits, then "." and a maximal run of digits when both
\* are there, then any spaces, then "t".  Yields group(1), or <<>>.
SizeMatchAt(s, i) ==
    LET e1  == DigitRunEnd(s, i)
        dec == /\ e1 + 2 <= Len(s)
               /\ s[e1 + 1] = "."
               /\ IsDigit(s[e1 + 2])
        e2  == IF dec THEN DigitRunEnd(s, e1 + 2) ELSE e1
        t   == SkipSpaces(s, e2 + 1)
    IN  IF e1 >= i /\ t <= Len(s) /\ s[t] = "t" THEN SubSeq(s, i, e2) ELSE <<>>

SizeSearch(s) ==
    LET starts == {i \in 1..Len(s) : SizeMatchAt(s, i) # <<>>}
    IN  IF starts = {} THEN <<>>
        ELSE SizeMatchAt(s, CHOOSE i \in starts : \A j \in starts : i <= j)

\* float(m.group(1))
SizeTonnes(g) ==
    LET e == DigitRunEnd(g, 1)
    IN  DecimalValue(SubSeq(g, 1, e), SubSeq(g, e + 2, Len(g)))

\* Variant of the validation that lets resale_year = purchase_year through
FederalValidateLax(v) ==
    LET size_str == Strip(Lower(v.size.s))
        m        == SizeSearch(size_str)
    IN  IF FederalRequired \ v.keys # {} THEN "Missing required keys"
        ELSE IF RLe(v["kilometers per year"], RZero) THEN "'kilometers per year' must be > 0."
        ELSE IF v.resale_year < v.purchase_year
            THEN "'resale_year' must be strictly greater than 'purchase_year'."
        ELSE IF m = <<>> THEN "Could not parse tonnes from 'size'."
        ELSE IF RLe(SizeTonnes(m), RZero) THEN "Gross mass (tonnes) must be > 0."
        ELSE "ok"

\* "Validate & parse inputs": the ValueError raised, or "ok".
FederalValidate(v) ==
    LET size_str == Strip(Lower(v.size.s))
        m        == SizeSearch(size_str)
    IN  IF FederalRequired \ v.keys # {} THEN "Missing required keys"
        ELSE IF RLe(v["kilometers per year"], RZero) THEN "'kilometers per year' must be > 0."
        ELSE IF v.resale_year <= v.purchase_year
            THEN "'resale_year' must be strictly greater than 'purchase_year'."
        ELSE IF m = <<>> THEN "Could not parse tonnes from 'size'."
        ELSE IF RLe(SizeTonnes(m), RZero) THEN "Gross mass (tonnes) must be > 0."
        ELSE "ok"

\* Variant of the window that counts the resale year too
FederalYearsInclusive(purchase_year, resale_year) == Range(purchase_year, resale_year + 1)

\* range(purchase_year, resale_year): the resale year is not driven
FederalYears(purchase_year, resale_year) == Range(purchase_year, resale_year)

\* Variant of the charge that leaves the gross mass out
FederalChargePerKm(rate, tonnes, km) == RMul(rate, km)

\* chf = rate * tonnes * km
FederalCharge(rate, tonnes, km) == RMul(RMul(rate, tonnes), km)

\* Variant of the distance that counts one year more than the window has
FederalTotalKmPlusOne(km_per_year, years) == RMul(km_per_year, RInt(Len(years) + 1))

\* total_km = km_per_year * len(years)
FederalTotalKm(km_per_year, years) == RMul(km_per_year, RInt(Len(years)))

\* cost_per_km = (total_charge / total_km) if total_km > 0 else 0.0
FederalCostPerKm(total_charge, total_km) ==
    IF RLt(RZero, total_km) THEN RDiv(total_charge, total_km) ELSE RZero

NoLoc == [none |-> TRUE]
NoRet == [none |-> TRUE]

\* Lines 44-68 and 86-114: validation, parsing, the loop's initial state.
FederalCall(v) ==
    /\ engine = "idle"
    /\ vd' = v
    /\ engine' = "federal"
    /\ ret' = NoRet
    /\ LET e == FederalValidate(v) IN
         IF e # "ok" THEN
            /\ pc' = "raised"
            /\ err' = e
            /\ loc' = NoLoc
         ELSE
            LET years == FederalYears(v.purchase_year, v.resale_year) IN
            /\ pc' = "loop"
            /\ err' = "none"
            /\ loc' = [pt            |-> Strip(v.powertrain),
                       tonnes        |-> SizeTonnes(SizeSearch(Strip(Lower(v.size.s)))),
                       km_per_year   |-> v["kilometers per year"],
                       manuf_year    |-> Get(v, "year", v.purchase_year),
                       years         |-> years,
                       total_km      |-> FederalTotalKm(v["kilometers per year"], years),
                       breakdown     |-> <<>>,
                       total_charge  |-> RZero]

\* Lines 116-127: one iteration of "for y in years".
FederalYear ==
    /\ engine = "federal"
    /\ pc = "loop"
    /\ Len(loc.breakdown) < Len(loc.years)
    /\ LET y    == loc.years[Len(loc.breakdown) + 1]
           rate == rate_chf_per_tkm_for_year(loc.pt, modern_vi_vii(loc.manuf_year), y)
           chf  == FederalCharge(rate.v, loc.tonnes, loc.km_per_year)
       IN  IF ~rate.ok THEN
              /\ pc' = "raised"
              /\ err' = "Unsupported powertrain"
              /\ UNCHANGED loc
           ELSE
              /\ loc' = [loc EXCEPT
                    !.breakdown = Append(@, [year             |-> y,
                                             km               |-> loc.km_per_year,
                                             tonnes           |-> loc.tonnes,
                                             rate_chf_per_tkm |-> rate.v,
                                             charge_chf       |-> chf]),
                    !.total_charge = RAdd(@, chf)]
              /\ UNCHANGED <<pc, err>>
    /\ UNCHANGED <<vd, engine, ret>>

\* Lines 129-136: the result.
FederalReturn ==
    /\ engine = "federal"
    /\ pc = "loop"
    /\ Len(loc.breakdown) = Len(loc.years)
    /\ pc' = "returned"
    /\ ret' = [total_charge_chf |-> loc.total_charge,
               total_km         |-> loc.total_km,
               cost_per_km_chf  |-> FederalCostPerKm(loc.total_charge, loc.total_km),
               breakdown        |-> loc.breakdown]
    /\ UNCHANGED <<vd, engine, loc, err>>

----------------------------------------------------------------------------
(* canton_truck_tax: helpers                                               *)

\* Characters outside ASCII are named by their code point.  NFKD splits a
\* letter with a diacritic into the letter and a combining mark.
NFKD(c) ==
    CASE c = "U+00FC" -> <<"u", "U+0308">>
      [] c = "U+00DC" -> <<"U", "U+0308">>
      [] c = "U+00E8" -> <<"e", "U+0300">>
      [] c = "U+00C8" -> <<"E", "U+0300">>
      [] OTHER -> <<c>>

NonAscii == {"U+00FC", "U+00DC", "U+00E8", "U+00C8", "U+0308", "U+0300"}

RECURSIVE Normalize(_)
Normalize(s) == IF s = <<>> THEN <<>> ELSE NFKD(Head(s)) \o Normalize(Tail(s))

\* .encode("ascii", "ignore").decode("ascii")
AsciiIgnore(s) == SelectSeq(s, LAMBDA c : c \notin NonAscii)

\* Variant of the normalization that keeps the letter case
_normalize_keep_case(s) == Strip(AsciiIgnore(Normalize(s)))

_normalize_canton(s) == Lower(Strip(AsciiIgnore(Normalize(s))))

\* Optional[float]
None == [ok |-> FALSE, v |-> RZero]
Some(x) == [ok |-> TRUE, v |-> x]

\* size is vehicle_data.get("size"): has = FALSE stands for None
_parse_tonnes(has, size) ==
    IF ~has THEN None
    ELSE IF size.num THEN Some(PyFloat(size.s).v)
    ELSE LET s1 == Remove(Lower(size.s), " ")
             s2 == IF EndsWith(s1, "t") THEN SubSeq(s1, 1, Len(s1) - 1) ELSE s1
             f  == PyFloat(Replace(s2, ",", "."))
         IN  IF f.ok THEN Some(f.v) ELSE None

\* Variant of the window that leaves the resale year out
_years_owned_exclusive(purchase_year, resale_year) == resale_year - purchase_year

_years_owned_inclusive(purchase_year, resale_year) == resale_year - purchase_year + 1

\* euro_class or ("Euro 6" if year >= 2014 else "Euro 5"); <<>> stands for
\* None and for the empty string, both false
_infer_euro_truck(year, euro_class) ==
    IF euro_class # <<>> THEN euro_class
    ELSE IF year >= 2014 THEN S_Euro6 ELSE S_Euro5

\* \d+(?:\.\d+)? at position i: the index of its last character (i - 1: none)
NumberEnd(s, i) ==
    LET e1 == DigitRunEnd(s, i)
    IN  IF e1 >= i /\ e1 + 2 <= Len(s) /\ s[e1 + 1] = "." /\ IsDigit(s[e1 + 2])
        THEN DigitRunEnd(s, e1 + 2) ELSE e1

NumberValue(g) ==
    LET e == DigitRunEnd(g, 1)
    IN  DecimalValue(SubSeq(g, 1, e), SubSeq(g, e + 2, Len(g)))

StartsWith(s, p) == Len(s) >= Len(p) /\ SubSeq(s, 1, Len(p)) = p

\* "=(\d+(?:\.\d+)?)t" matching at i
EqAt(s, i) ==
    LET e == NumberEnd(s, i + 1)
    IN  IF s[i] = "=" /\ e >= i + 1 /\ e + 1 <= Len(s) /\ s[e + 1] = "t"
        THEN Some(NumberValue(SubSeq(s, i + 1, e))) ELSE None

\* re.search(r"=(\d+(?:\.\d+)?)t", s), from position i on
RECURSIVE MatchEq(_, _)
MatchEq(s, i) ==
    IF i > Len(s) THEN None
    ELSE IF EqAt(s, i).ok THEN EqAt(s, i) ELSE MatchEq(s, i + 1)

NoRange == [ok |-> FALSE, lo |-> RZero, hi |-> RZero]

\* ">(\d+(?:\.\d+)?)(?:t)?-(\d+(?:\.\d+)?)t" matching at i
RangeAt(s, i) ==
    LET e1   == NumberEnd(s, i + 1)
        dash == IF e1 + 1 <= Len(s) /\ s[e1 + 1] = "t" THEN e1 + 2 ELSE e1 + 1
        e2   == NumberEnd(s, dash + 1)
    IN  IF /\ s[i] = ">"
           /\ e1 >= i + 1
           /\ dash <= Len(s) /\ s[dash] = "-"
           /\ e2 >= dash + 1
           /\ e2 + 1 <= Len(s) /\ s[e2 + 1] = "t"
        THEN [ok |-> TRUE,
              lo |-> NumberValue(SubSeq(s, i + 1, e1)),
              hi |-> NumberValue(SubSeq(s, dash + 1, e2))]
        ELSE NoRange

\* re.search(r">(\d+(?:\.\d+)?)(?:t)?-(\d+(?:\.\d+)?)t", s), from position i on
RECURSIVE MatchRange(_, _)
MatchRange(s, i) ==
    IF i > Len(s) THEN NoRange
    ELSE IF RangeAt(s, i).ok THEN RangeAt(s, i) ELSE MatchRange(s, i + 1)

\* ">(\d+(?:\.\d+)?)t$" matching at i
OpenAt(s, i) ==
    LET e == NumberEnd(s, i + 1)
    IN  IF s[i] = ">" /\ e >= i + 1 /\ e + 1 = Len(s) /\ s[Len(s)] = "t"
        THEN Some(NumberValue(SubSeq(s, i + 1, e))) ELSE None

\* re.search(r">(\d+(?:\.\d+)?)t$", s), from position i on
RECURSIVE MatchOpen(_, _)
MatchOpen(s, i) ==
    IF i > Len(s) THEN None
    ELSE IF OpenAt(s, i).ok THEN OpenAt(s, i) ELSE MatchOpen(s, i + 1)

NoBand == [ok |-> FALSE, vehicle_type |-> "None", lo |-> None, hi |-> None]

\* (vehicle_type, min_t, max_t) or None (ok = FALSE)
_parse_original_class(original) ==
    LET s == Replace(Remove(Lower(Strip(original)), " "), ",", ".")
        vehicle_type ==
            IF StartsWith(s, <<"l","z","/","s","z">>) \/ StartsWith(s, <<"l","z","s","z">>)
            THEN "articulated"
            ELSE IF StartsWith(s, <<"l","k","w">>) THEN "rigid" ELSE "None"
        m_eq    == MatchEq(s, 1)
        m_range == MatchRange(s, 1)
        m_open  == MatchOpen(s, 1)
    IN  IF original = <<>> \/ vehicle_type = "None" THEN NoBand
        ELSE IF m_eq.ok
            THEN [ok |-> TRUE, vehicle_type |-> vehicle_type, lo |-> m_eq, hi |-> m_eq]
        ELSE IF m_range.ok
            THEN [ok |-> TRUE, vehicle_type |-> vehicle_type,
                  lo |-> Some(m_range.lo), hi |-> Some(m_range.hi)]
        ELSE IF m_open.ok
            THEN [ok |-> TRUE, vehicle_type |-> vehicle_type, lo |-> m_open, hi |-> None]
        ELSE NoBand

\* Variant that takes the strategy for the open-ended band too
_tonnes_from_band_strict(min_t, max_t, strategy) ==
    IF ~min_t.ok /\ ~max_t.ok THEN None
    ELSE IF strategy = "upper" THEN max_t
    ELSE IF strategy = "lower" \/ ~max_t.ok THEN min_t
    ELSE Some(RDiv(RAdd(min_t.v, max_t.v), RInt(2)))

_tonnes_from_band(min_t, max_t, strategy) ==
    IF ~min_t.ok /\ ~max_t.ok THEN None
    ELSE IF ~max_t.ok THEN min_t
    ELSE IF strategy = "upper" THEN max_t
    ELSE IF strategy = "lower" THEN min_t
    ELSE Some(RDiv(RAdd(min_t.v, max_t.v), RInt(2)))

\* any(x in e for x in ("6", "vii", "7"))
ModernEuro(euro) ==
    LET e == Lower(euro)
    IN  Contains(e, <<"6">>) \/ Contains(e, <<"v","i","i">>) \/ Contains(e, <<"7">>)

\* next(val for ub, val in table if w <= ub), default when there is none
RECURSIVE Bracket(_, _, _)
Bracket(table, w, default) ==
    IF table = <<>> THEN default
    ELSE IF w <= Head(table)[1] THEN Head(table)[2]
    ELSE Bracket(Tail(table), w, default)

----------------------------------------------------------------------------
(* canton_truck_tax: the annual formulas                                   *)

\* Variant that gives the low surcharge to battery vehicles only
_zurich_annual_bev_only(weight_kg, euro, powertrain) ==
    LET base == RAdd(RInt(254),
                     IF weight_kg > 4000
                     THEN RInt(35 * Ceil(Rat(weight_kg - 4000, 500))) ELSE RZero)
        surcharge == IF Upper(powertrain) = S_BEV THEN 300
                     ELSE IF ModernEuro(euro) THEN 300 ELSE 900
    IN  RAdd(base, RInt(surcharge))

_zurich_annual(weight_kg, euro, powertrain) ==
    LET base == RAdd(RInt(254),
                     IF weight_kg > 4000
                     THEN RInt(35 * Ceil(Rat(weight_kg - 4000, 500))) ELSE RZero)
        surcharge == IF Upper(powertrain) \in {S_BEV, S_FCEV} THEN 300
                     ELSE IF ModernEuro(euro) THEN 300 ELSE 900
    IN  RAdd(base, RInt(surcharge))

GenevaBrackets ==
    << <<4000, 651>>, <<4500, 716>>, <<5000, 781>>, <<5500, 846>>,
       <<6000, 911>>, <<6500, 976>>, <<7000, 1041>>, <<7500, 1106>>,
       <<8000, 1171>>, <<8500, 1236>>, <<9000, 1301>>, <<9500, 1366>>,
       <<10000, 1431>>, <<10500, 1496>>, <<11000, 1561>>, <<11500, 1626>>,
       <<12000, 1691>>, <<12500, 1756>>, <<13000, 1821>> >>

\* Variant whose reduction starts a year later
_geneva_annual_from_2026(weight_kg, year, powertrain) ==
    LET amt == IF weight_kg <= 3500 THEN Rat(3505, 10)
               ELSE IF weight_kg > 13000 THEN RInt(1837)
               ELSE RInt(Bracket(GenevaBrackets, weight_kg, 0))
    IN  IF Upper(powertrain) \in {S_BEV, S_FCEV} /\ year >= 2026
        THEN RMul(amt, Rat(1, 2)) ELSE amt

_geneva_annual(weight_kg, year, powertrain) ==
    LET amt == IF weight_kg <= 3500 THEN Rat(3505, 10)
               ELSE IF weight_kg > 13000 THEN RInt(1837)
               ELSE RInt(Bracket(GenevaBrackets, weight_kg, 0))
    IN  IF Upper(powertrain) \in {S_BEV, S_FCEV} /\ year >= 2025
        THEN RMul(amt, Rat(1, 2)) ELSE amt

\* Variant that gives a modern-era BEV both reductions
_vaud_annual_combined(weight_kg, powertrain, euro) ==
    LET amt == RAdd(RInt(450),
                    IF weight_kg > 4000
                    THEN RInt(78 * Ceil(Rat(weight_kg - 4000, 1000))) ELSE RZero)
        era == IF ModernEuro(euro) THEN Rat(65, 100) ELSE RInt(1)
    IN  IF Upper(powertrain) = S_BEV THEN RMul(RMul(amt, Rat(10, 100)), era)
        ELSE RMul(amt, era)

_vaud_annual(weight_kg, powertrain, euro) ==
    LET amt == RAdd(RInt(450),
                    IF weight_kg > 4000
                    THEN RInt(78 * Ceil(Rat(weight_kg - 4000, 1000))) ELSE RZero)
    IN  IF Upper(powertrain) = S_BEV THEN RMul(amt, Rat(10, 100))
        ELSE RMul(amt, IF ModernEuro(euro) THEN Rat(65, 100) ELSE RInt(1))

_ticino_annual(power_kw) == RAdd(RInt(105), RMul(RInt(10), power_kw))

Min(a, b) == IF a <= b THEN a ELSE b
Max(a, b) == IF a >= b THEN a ELSE b

_gr_cat2(weight_kg) ==
    LET a1 == IF weight_kg > 2000
              THEN RMul(Rat(1510, 100), RInt(Ceil(Rat(Min(16000, weight_kg) - 2000, 100))))
              ELSE RZero
        a2 == IF weight_kg > 16000
              THEN RMul(Rat(1130, 100), RInt(Ceil(Rat(weight_kg - 16000, 100))))
              ELSE RZero
    IN  RAdd(RAdd(Rat(45050, 100), a1), a2)

_graubuenden_annual(weight_kg, powertrain) ==
    IF Upper(powertrain) \in {S_BEV, Upper(S_HEV_d), Upper(S_PHEV_d)}
    THEN RMul(Rat(20, 100), _gr_cat2(weight_kg))
    ELSE
        LET add1 == Min(weight_kg, 6500) - 3500
            a1 == IF weight_kg > 3500 /\ add1 > 0
                  THEN RInt(12 * Ceil(Rat(add1, 100))) ELSE RZero
            a2 == IF weight_kg > 6500
                  THEN RMul(Rat(930, 100), RInt(Ceil(Rat(Min(weight_kg, 16000) - 6500, 100))))
                  ELSE RZero
            a3 == IF weight_kg > 16000
                  THEN RMul(Rat(850, 100), RInt(Ceil(Rat(weight_kg - 16000, 100))))
                  ELSE RZero
        IN  RAdd(RAdd(RAdd(Rat(59580, 100), a1), a2), a3)

\* Variant whose first flat band lies below the last step before it
_valais_annual_low_band(weight_kg) ==
    IF weight_kg <= 4000 THEN RInt(400)
    ELSE IF weight_kg <= 15000
        THEN RAdd(RInt(400), RMul(Rat(5750, 100), RInt(Ceil(Rat(weight_kg - 4000, 1000)))))
    ELSE IF weight_kg <= 23000 THEN RInt(1000)
    ELSE IF weight_kg <= 32000 THEN RInt(1750)
    ELSE RInt(2000)

_valais_annual(weight_kg) ==
    IF weight_kg <= 4000 THEN RInt(400)
    ELSE IF weight_kg <= 15000
        THEN RAdd(RInt(400), RMul(Rat(5750, 100), RInt(Ceil(Rat(weight_kg - 4000, 1000)))))
    ELSE IF weight_kg <= 23000 THEN RInt(1500)
    ELSE IF weight_kg <= 32000 THEN RInt(1750)
    ELSE RInt(2000)

\* Python's floor division and modulo by a positive number
PyDiv(a, b) == IF a >= 0 THEN a \div b ELSE -(((-a) + b - 1) \div b)
PyMod(a, b) == a - b * PyDiv(a, b)

\* "for _ in range(n): total += rate; rate *= (1 - 0.14)"
RECURSIVE GeometricLoop(_, _, _)
GeometricLoop(n, total, rate) ==
    IF n <= 0 THEN [total |-> total, rate |-> rate]
    ELSE GeometricLoop(n - 1, RAdd(total, rate), RMul(rate, Rat(86, 100)))

_geometric_sum(kg, first_1000_rate) ==
    IF kg <= 0 THEN RZero
    ELSE
        LET full_tonnes_after == Max(0, PyDiv(kg - 1000, 1000))
            rem_kg == Max(0, PyMod(kg - 1000, 1000))
            st == GeometricLoop(full_tonnes_after, first_1000_rate,
                                RMul(first_1000_rate, Rat(86, 100)))
        IN  IF rem_kg > 0
            THEN RAdd(st.total, RMul(st.rate, Rat(rem_kg, 1000)))
            ELSE st.total

\* Variant whose reduction lasts a year longer
_bern_annual_five_years(weight_kg, powertrain, first_reg_year, this_year) ==
    IF Upper(powertrain) = S_BEV THEN
        LET base == _geometric_sum(weight_kg, RInt(120))
        IN  IF this_year >= first_reg_year /\ this_year <= first_reg_year + 4
            THEN RMul(base, Rat(40, 100)) ELSE base
    ELSE _geometric_sum(weight_kg, RInt(240))

_bern_annual(weight_kg, powertrain, first_reg_year, this_year) ==
    IF Upper(powertrain) = S_BEV THEN
        LET base == _geometric_sum(weight_kg, RInt(120))
        IN  IF this_year >= first_reg_year /\ this_year <= first_reg_year + 3
            THEN RMul(base, Rat(40, 100)) ELSE base
    ELSE _geometric_sum(weight_kg, RInt(240))

_baselland_annual(weight_kg) == RMul(Rat(121446, 1000000), RInt(weight_kg))

FribourgTable ==
    << <<7500, 1140>>, <<14000, 1666>>, <<20000, 2192>>, <<26000, 2718>>,
       <<32000, 3244>>, <<1000000000, 3770>> >>

_fribourg_annual(weight_kg) ==
    IF weight_kg <= 3500 THEN RZero
    ELSE RInt(Bracket(FribourgTable, weight_kg, 3770))

AargauBands ==
    << <<1500, 348>>, <<2000, 420>>, <<2500, 492>>, <<3000, 564>>,
       <<3500, 636>>, <<4000, 708>>, <<4500, 780>>, <<5000, 852>>,
       <<5500, 936>>, <<6000, 1020>>, <<6500, 1104>>, <<7000, 1188>>,
       <<7500, 1272>>, <<8000, 1356>>, <<8500, 1440>>, <<9000, 1524>>,
       <<9500, 1608>> >>

\* Variant that stops at the last published band
_aargau_annual_capped(payload_kg) ==
    IF payload_kg < 1000 THEN None
    ELSE Some(RInt(Bracket(AargauBands, payload_kg, 1608)))

\* ok = FALSE: ValueError("AG expects payload >= 1'000 kg ...")
_aargau_annual(payload_kg) ==
    IF payload_kg < 1000 THEN None
    ELSE IF payload_kg <= 9500 THEN Some(RInt(Bracket(AargauBands, payload_kg, 0)))
    ELSE Some(RInt(1608 + Ceil(Rat(payload_kg - 9500, 500)) * 84))

----------------------------------------------------------------------------
(* canton_truck_tax                                                        *)

CantonRequired == {"canton", "powertrain", "year", "purchase_year",
                   "resale_year", "kilometers per year"}

ZH == {<<"z","h">>,
    <<"z","u","e","r","i","c","h">>,
    <<"z","u","r","i","c","h">>,
    <<"z","u","r","i","c","h"," ","c","i","t","y">>}
GE == {<<"g","e">>,
    <<"g","e","n","e","v","e">>,
    <<"g","e","n","e","v","a">>}
VD == {<<"v","d">>,
    <<"v","a","u","d">>}
TI == {<<"t","i">>,
    <<"t","i","c","i","n","o">>}
GR == {<<"g","r">>,
    <<"g","r","a","u","b","u","n","d","e","n">>,
    <<"g","r","a","u","b","u","e","n","d","e","n">>}
VS == {<<"v","s">>,
    <<"v","a","l","a","i","s">>}
BE == {<<"b","e">>,
    <<"b","e","r","n">>,
    <<"b","e","r","n","e">>}
BL == {<<"b","l">>,
    <<"b","a","s","e","l","l","a","n","d">>,
    <<"b","a","s","e","l","-","l","a","n","d","s","c","h","a","f","t">>,
    <<"b","a","s","e","l"," ","l","a","n","d","s","c","h","a","f","t">>}
FR == {<<"f","r">>,
    <<"f","r","i","b","o","u","r","g">>,
    <<"f","r","e","i","b","u","r","g">>}
AG == {<<"a","g">>,
    <<"a","a","r","g","a","u">>}

\* The alias sets in the order of the if/elif chain (lines 405-454)
AliasTable == <<ZH, GE, VD, TI, GR, VS, BE, BL, FR, AG>>

\* The branch of the chain a normalized name takes: its position in the
\* chain, or 0 for the final else
Jurisdiction(canton) ==
    IF \E i \in 1..Len(AliasTable) : canton \in AliasTable[i]
    THEN CHOOSE i \in 1..Len(AliasTable) :
            /\ canton \in AliasTable[i]
            /\ \A j \in 1..(i - 1) : canton \notin AliasTable[j]
    ELSE 0

\* Variant that prefers the class band to the size
WeightFromBandFirst(tonnes, parsed, band_estimation) ==
    IF parsed.ok
    THEN [tonnes |-> _tonnes_from_band(parsed.lo, parsed.hi, band_estimation),
          vehicle_type |-> parsed.vehicle_type,
          weight_source |-> "original class name"]
    ELSE [tonnes |-> tonnes, vehicle_type |-> "None", weight_source |-> "size"]

\* Lines 385-393: the weight from the size, else from the class band
WeightFrom(tonnes, parsed, band_estimation) ==
    IF tonnes.ok
    THEN [tonnes |-> tonnes, vehicle_type |-> "None", weight_source |-> "size"]
    ELSE IF parsed.ok
    THEN [tonnes |-> _tonnes_from_band(parsed.lo, parsed.hi, band_estimation),
          vehicle_type |-> parsed.vehicle_type,
          weight_source |-> "original class name"]
    ELSE [tonnes |-> None, vehicle_type |-> "None", weight_source |-> "size"]

\* Lines 382-393: (tonnes, vehicle_type, weight_source)
ResolveWeight(v, band_estimation) ==
    WeightFrom(_parse_tonnes("size" \in v.keys, v.size),
               _parse_original_class(Get(v, "original class name", <<>>)),
               band_estimation)

\* "for yr in range(y0, y1 + 1)": the years looped over
LoopYears(y0, y1) == [i \in 1..Max(0, y1 - y0 + 1) |-> y0 + i - 1]

PerYearEntries(amounts, y0) ==
    [i \in 1..Len(amounts) |->
        [year |-> y0 + i - 1, annual_tax_chf |-> Round(amounts[i], 2)]]

\* annual = total / years if years else 0.0
LoopAnnual(total, years) == IF years # 0 THEN RDiv(total, RInt(years)) ELSE RZero

Fixed(annual, notes) ==
    [raised |-> FALSE, err |-> "none", annual |-> annual, per_year |-> <<>>,
     looped |-> FALSE, notes |-> notes]

Looped(amounts, l, notes) ==
    [raised |-> FALSE, err |-> "none",
     annual |-> LoopAnnual(RSum(amounts), l.years),
     per_year |-> PerYearEntries(amounts, l.y0), looped |-> TRUE, notes |-> notes]

\* Variant that answers an error with an amount of zero
DefaultAmount(e) ==
    [raised |-> FALSE, err |-> "none", annual |-> RZero, per_year |-> <<>>,
     looped |-> FALSE, notes |-> <<>>]

Raise(e) ==
    [raised |-> TRUE, err |-> e, annual |-> RZero, per_year |-> <<>>,
     looped |-> FALSE, notes |-> <<>>]

\* Lines 402-461: dispatch per canton
Dispatch(v, l) ==
    IF l.canton \in ZH THEN Fixed(_zurich_annual(l.weight_kg, l.euro, l.pt), <<>>)
    ELSE IF l.canton \in GE THEN
        LET ys == LoopYears(l.y0, l.y1)
        IN  Looped([i \in 1..Len(ys) |-> _geneva_annual(l.weight_kg, ys[i], l.pt)],
                   l, <<"Geneve">>)
    ELSE IF l.canton \in VD THEN Fixed(_vaud_annual(l.weight_kg, l.pt, l.euro), <<>>)
    ELSE IF l.canton \in TI THEN
        IF "power" \notin v.keys THEN Raise("Ticino requires 'power' (kW).")
        ELSE Fixed(_ticino_annual(v.power), <<"Ticino">>)
    ELSE IF l.canton \in GR
        THEN Fixed(_graubuenden_annual(l.weight_kg, l.pt), <<"Graubuenden">>)
    ELSE IF l.canton \in VS THEN Fixed(_valais_annual(l.weight_kg), <<>>)
    ELSE IF l.canton \in BE THEN
        LET first_reg == Get(v, "first_registration_year", l.made_year)
            ys == LoopYears(l.y0, l.y1)
        IN  Looped([i \in 1..Len(ys) |->
                       _bern_annual(l.weight_kg, l.pt, first_reg, ys[i])],
                   l, <<"Bern">>)
    ELSE IF l.canton \in BL
        THEN Fixed(_baselland_annual(l.weight_kg), <<"Basel-Landschaft">>)
    ELSE IF l.canton \in FR THEN Fixed(_fribourg_annual(l.weight_kg), <<"Fribourg">>)
    ELSE IF l.canton \in AG THEN
        IF "cargo mass" \notin v.keys
        THEN Raise("Aargau requires 'cargo mass' (Nutzlast) for trucks.")
        ELSE IF ~_aargau_annual(v["cargo mass"]).ok
        THEN Raise("AG expects payload >= 1'000 kg")
        ELSE Fixed(_aargau_annual(v["cargo mass"]).v, <<"Aargau">>)
    ELSE Raise("Unsupported/unknown canton")

\* total_tax = annual * years
CantonTotalTax(annual, years) == RMul(annual, RInt(years))

\* total_km = km_per_year * years
CantonTotalKm(km_per_year, years) == RMul(km_per_year, RInt(years))

\* chf_per_km = (total_tax / total_km) if total_km > 0 else 0.0
CantonChfPerKm(total_tax, total_km) ==
    IF RLt(RZero, total_km) THEN RDiv(total_tax, total_km) ELSE RZero

\* Lines 372-380 and 395-400: the locals of the call once the weight is resolved
CantonLocals(v, canton, years, w) ==
    [canton_raw    |-> v.canton,
     canton        |-> canton,
     pt            |-> Strip(v.powertrain),
     made_year     |-> v.year,
     euro          |-> _infer_euro_truck(v.year, Get(v, "euro_class", <<>>)),
     y0            |-> v.purchase_year,
     y1            |-> v.resale_year,
     km_per_year   |-> v["kilometers per year"],
     years         |-> years,
     total_km      |-> CantonTotalKm(v["kilometers per year"], years),
     tonnes        |-> w.tonnes,
     vehicle_type  |-> w.vehicle_type,
     weight_source |-> w.weight_source,
     weight_kg     |-> IF w.tonnes.ok
                       THEN RoundHalfEven(RMul(w.tonnes.v, RInt(1000)))
                       ELSE 0]

\* Lines 372-400: inputs, ownership window, weight resolution.
CantonCall(v) ==
    /\ engine = "idle"
    /\ vd' = v
    /\ engine' = "cantonal"
    /\ ret' = NoRet
    /\ IF CantonRequired \ v.keys # {} THEN
          /\ pc' = "raised"
          /\ err' = "KeyError"
          /\ loc' = NoLoc
       ELSE
          \E canton \in {_normalize_canton(v.canton)},
             years  \in {_years_owned_inclusive(v.purchase_year, v.resale_year)},
             w      \in {ResolveWeight(v, v.band_estimation)} :
              IF ~w.tonnes.ok /\ canton \notin AG THEN
                 /\ pc' = "raised"
                 /\ err' = "Provide 'size' or a parseable 'original class name'."
                 /\ loc' = NoLoc
              ELSE
                 /\ pc' = "dispatch"
                 /\ err' = "none"
                 /\ loc' = CantonLocals(v, canton, years, w)

\* Lines 466-481: the dictionary returned
CantonResult(l, d, total_tax) ==
    [canton                |-> l.canton_raw,
     vehicle_type_inferred |-> l.vehicle_type,
     tonnes_used           |-> IF l.tonnes.ok THEN Some(Round(l.tonnes.v, 3)) ELSE None,
     weight_source         |-> IF l.tonnes.ok THEN l.weight_source ELSE "None",
     annual_tax_chf        |-> Round(d.annual, 2),
     years                 |-> l.years,
     total_tax_chf         |-> Round(total_tax, 2),
     total_km              |-> Trunc(l.total_km),
     chf_per_km            |-> Round(CantonChfPerKm(total_tax, l.total_km), 6),
     has_per_year          |-> d.per_year # <<>>,
     per_year              |-> d.per_year,
     notes                 |-> d.notes \o <<"Euro class", "Ownership window">>]

\* Lines 402-481: the canton's formula, the totals, the result.
CantonReturn ==
    /\ engine = "cantonal"
    /\ pc = "dispatch"
    /\ \E d \in {Dispatch(vd, loc)} :
       \E total_tax \in {CantonTotalTax(d.annual, loc.years)} :
           IF d.raised THEN
              /\ pc' = "raised"
              /\ err' = d.err
              /\ ret' = NoRet
           ELSE
              /\ pc' = "returned"
              /\ err' = "none"
              /\ ret' = CantonResult(loc, d, total_tax)
    /\ UNCHANGED <<vd, engine, loc>>

----------------------------------------------------------------------------
(* The two entry points as functions of the vehicle dictionary: what a     *)
(* caller gets back, a result or an exception                              *)

Raised(e) == [raised |-> TRUE, err |-> e, result |-> NoRet]
Returned(result) == [raised |-> FALSE, err |-> "none", result |-> result]

\* Lines 116-127: the breakdown of "for y in years"; ok = FALSE when the
\* rate of a year raises
RECURSIVE FederalBreakdown(_, _, _, _, _)
FederalBreakdown(years, pt, manuf_year, tonnes, km) ==
    IF years = <<>> THEN [ok |-> TRUE, entries |-> <<>>]
    ELSE
        LET rate == rate_chf_per_tkm_for_year(pt, modern_vi_vii(manuf_year), Head(years))
            rest == FederalBreakdown(Tail(years), pt, manuf_year, tonnes, km)
        IN  IF ~rate.ok \/ ~rest.ok THEN [ok |-> FALSE, entries |-> <<>>]
            ELSE [ok |-> TRUE,
                  entries |-> <<[year             |-> Head(years),
                                 km               |-> km,
                                 tonnes           |-> tonnes,
                                 rate_chf_per_tkm |-> rate.v,
                                 charge_chf       |-> FederalCharge(rate.v, tonnes, km)]>>
                              \o rest.entries]

\* total_charge += chf
RECURSIVE FederalTotalCharge(_)
FederalTotalCharge(entries) ==
    IF entries = <<>> THEN RZero
    ELSE RAdd(FederalTotalCharge(SubSeq(entries, 1, Len(entries) - 1)),
              entries[Len(entries)].charge_chf)

\* Lines 129-136
FederalResult(entries, total_charge, total_km) ==
    [total_charge_chf |-> total_charge,
     total_km         |-> total_km,
     cost_per_km_chf  |-> FederalCostPerKm(total_charge, total_km),
     breakdown        |-> entries]

FederalLooped(b, total_km) ==
    IF ~b.ok THEN Raised("Unsupported powertrain")
    ELSE Returned(FederalResult(b.entries, FederalTotalCharge(b.entries), total_km))

FederalValidated(v, years) ==
    FederalLooped(FederalBreakdown(years, Strip(v.powertrain),
                                   Get(v, "year", v.purchase_year),
                                   SizeTonnes(SizeSearch(Strip(Lower(v.size.s)))),
                                   v["kilometers per year"]),
                  FederalTotalKm(v["kilometers per year"], years))

FederalChecked(v, e) ==
    IF e # "ok" THEN Raised(e)
    ELSE FederalValidated(v, FederalYears(v.purchase_year, v.resale_year))

calculate_lsva_charge_period(v) == FederalChecked(v, FederalValidate(v))

CantonOutcome(l, d) ==
    IF d.raised THEN Raised(d.err)
    ELSE Returned(CantonResult(l, d, CantonTotalTax(d.annual, l.years)))

CantonDispatched(v, l) == CantonOutcome(l, Dispatch(v, l))

CantonResolved(v, canton, years, w) ==
    IF ~w.tonnes.ok /\ canton \notin AG
    THEN Raised("Provide 'size' or a parseable 'original class name'.")
    ELSE CantonDispatched(v, CantonLocals(v, canton, years, w))

canton_truck_tax(v) ==
    IF CantonRequired \ v.keys # {} THEN Raised("KeyError")
    ELSE CantonResolved(v, _normalize_canton(v.canton),
                        _years_owned_inclusive(v.purchase_year, v.resale_year),
                        ResolveWeight(v, v.band_estimation))

----------------------------------------------------------------------------
(* The calls made                                                          *)

\* Longest ownership window tried: resale_year - purchase_year <= MaxSpan
MaxSpan == 3

PurchaseYears == 2026..2036
Spans == (-1)..MaxSpan

\* The dictionary with every key absent (band_estimation is canton_truck_tax's
\* keyword argument, kept with the dictionary)
EmptyData ==
    [keys |-> {}, powertrain |-> <<>>, size |-> StrVal(<<>>),
     purchase_year |-> 0, resale_year |-> 0, year |-> 0, euro_class |-> <<>>,
     canton |-> <<>>, power |-> RZero, first_registration_year |-> 0,
     band_estimation |-> "midpoint"]
    @@ ("kilometers per year" :> RZero) @@ ("cargo mass" :> 0)
    @@ ("original class name" :> <<>>)

FedPowertrains ==
    {S_BEV, S_FCEV, S_ICEV_d, S_ICEV_g, S_HEV_d, S_PHEV_d,
     <<" ","B","E","V">>, <<"b","e","v">>, <<"I","C","E","V","-","p">>}

FedSizes ==
    {StrVal(<<"4","0","t">>), StrVal(<<"3",".","5"," ","t">>),
     StrVal(<<"0","t">>), NumVal(<<"4","0">>),
     StrVal(<<"3",",","5","t">>), StrVal(<<"3","2","t">>)}

FedKms == {RInt(-1), RZero, Rat(3, 2), RInt(1000), RInt(107000)}

ManufYears == {2013, 2014}

EuroClasses == {S_Euro5, S_Euro6}

\* An optional key: absent, or present with one of the values
Opt(values, default) ==
    {[has |-> FALSE, v |-> default]} \cup {[has |-> TRUE, v |-> x] : x \in values}

Key(k, o) == IF o.has THEN {k} ELSE {}

FederalData(pt, sz, km, py, sp, my, eu) ==
    [EmptyData EXCEPT
       !.keys = {"powertrain", "kilometers per year", "purchase_year", "resale_year"}
                  \cup Key("size", sz) \cup Key("year", my) \cup Key("euro_class", eu),
       !.powertrain    = pt,
       !.size          = sz.v,
       !["kilometers per year"] = km,
       !.purchase_year = py,
       !.resale_year   = py + sp,
       !.year          = my.v,
       !.euro_class    = eu.v]

CantonNames ==
    {<<"Z","H">>,
    <<" ","Z","U+00FC","r","i","c","h"," ">>,
    <<"G","e","n","U+00E8","v","e">>,
    <<"v","d">>,
    <<"T","i","c","i","n","o">>,
    <<"G","R">>,
    <<"V","S">>,
    <<"B","e","r","n">>,
    <<"B","L">>,
    <<"F","R">>,
    <<"A","G">>,
    <<"X","X">>}

CantonPowertrains == {S_BEV, S_FCEV, S_ICEV_d, S_PHEV_d, <<"b","e","v">>}

CantonPurchaseYears == {2023, 2025}
CantonSpans == (-1)..MaxSpan

CantonKms == {RZero, Rat(25, 2), RInt(1000)}

Absent(default) == [has |-> FALSE, v |-> default]
Present(x) == [has |-> TRUE, v |-> x]

C_LKW_20_26 == <<"L","K","W"," ",">","2","0","-","2","6","t">>
C_LZSZ_32   == <<"L","Z","/","S","Z"," ",">","3","2","t">>

\* (size, original class name, band_estimation)
Weights ==
    {<<Present(StrVal(sz)), Absent(<<>>), "midpoint">> :
        sz \in {<<"1","8","t">>, <<"3",",","5"," ","t">>, <<"a","b","c">>}}
    \cup {<<Present(NumVal(<<"4","0">>)), Absent(<<>>), "midpoint">>,
          <<Absent(StrVal(<<>>)), Absent(<<>>), "midpoint">>,
          <<Present(StrVal(<<"1","8","t">>)), Present(C_LKW_20_26), "midpoint">>,
          <<Present(StrVal(<<"a","b","c">>)), Present(C_LKW_20_26), "midpoint">>,
          <<Absent(StrVal(<<>>)), Present(C_LZSZ_32), "midpoint">>,
          <<Absent(StrVal(<<>>)), Present(C_LZSZ_32), "upper">>,
          <<Absent(StrVal(<<>>)), Present(C_LZSZ_32), "lower">>}
    \cup {<<Absent(StrVal(<<>>)), Present(C_LKW_20_26), b>> :
        b \in {"midpoint", "upper", "lower"}}

\* Bern's geometric series is exact only while its terms fit the integers
BernWeights ==
    {<<Present(StrVal(sz)), Absent(<<>>), "midpoint">> :
        sz \in {<<"3",",","5"," ","t">>, <<"0",".","5","t">>, <<"a","b","c">>}}
    \cup {<<Absent(StrVal(<<>>)), Absent(<<>>), "midpoint">>}

WeightsOf(canton) == IF _normalize_canton(canton) \in BE THEN BernWeights ELSE Weights

\* The powertrain is read by the formulas of ZH, GE, VD, GR and BE only
PowertrainsOf(canton) ==
    IF _normalize_canton(canton) \in ZH \cup GE \cup VD \cup GR \cup BE
    THEN CantonPowertrains ELSE {S_BEV, S_ICEV_d}

\* The year of manufacture is read by ZH and VD (Euro class) and BE (rebate)
ManufYearsOf(canton) ==
    IF _normalize_canton(canton) \in BE THEN ManufYears \cup {2022}
    ELSE IF _normalize_canton(canton) \in ZH \cup VD THEN ManufYears
    ELSE {2014}

EurosOf(canton) ==
    IF _normalize_canton(canton) \in ZH \cup VD
    THEN Opt(EuroClasses \cup {S_EuroVI}, <<>>) ELSE {Absent(<<>>)}

PowersOf(canton) ==
    IF _normalize_canton(canton) \in TI
    THEN Opt({RInt(300)}, RZero) ELSE {Absent(RZero)}

CargoOf(canton) ==
    IF _normalize_canton(canton) \in AG
    THEN Opt({500, 5000, 12000}, 0) ELSE {Absent(0)}

FirstRegOf(canton) ==
    IF _normalize_canton(canton) \in BE THEN Opt({2024}, 0) ELSE {Absent(0)}

CantonData(ca, pt, w, km, py, sp, my, eu, pw, cm, fr) ==
    [EmptyData EXCEPT
       !.keys = {"canton", "powertrain", "kilometers per year", "purchase_year",
                 "resale_year", "year"}
                  \cup Key("size", w[1]) \cup Key("original class name", w[2])
                  \cup Key("euro_class", eu) \cup Key("power", pw)
                  \cup Key("cargo mass", cm) \cup Key("first_registration_year", fr),
       !.canton        = ca,
       !.powertrain    = pt,
       !.size          = w[1].v,
       !["original class name"] = w[2].v,
       !["kilometers per year"] = km,
       !.purchase_year = py,
       !.resale_year   = py + sp,
       !.year          = my,
       !.euro_class    = eu.v,
       !.power         = pw.v,
       !["cargo mass"] = cm.v,
       !.first_registration_year = fr.v,
       !.band_estimation = w[3]]

Init ==
    /\ vd = EmptyData
    /\ engine = "idle"
    /\ pc = "idle"
    /\ loc = NoLoc
    /\ ret = NoRet
    /\ err = "none"

CallFederal ==
    /\ engine = "idle"
    /\ \E pt \in FedPowertrains, sz \in Opt(FedSizes, EmptyData.size),
          km \in FedKms, py \in PurchaseYears, sp \in Spans,
          my \in Opt(ManufYears, EmptyData.year),
          eu \in Opt(EuroClasses, EmptyData.euro_class) :
       \E v \in {FederalData(pt, sz, km, py, sp, my, eu)} :
            FederalCall(v)

NextFederal == CallFederal \/ FederalYear \/ FederalReturn

CallCanton ==
    /\ engine = "idle"
    /\ \E ca \in CantonNames, km \in CantonKms,
          py \in CantonPurchaseYears, sp \in CantonSpans :
       \E pt \in PowertrainsOf(ca), my \in ManufYearsOf(ca), w \in WeightsOf(ca), eu \in EurosOf(ca), pw \in PowersOf(ca),
          cm \in CargoOf(ca), fr \in FirstRegOf(ca) :
       \E v \in {CantonData(ca, pt, w, km, py, sp, my, eu, pw, cm, fr)} :
            CantonCall(v)

NextCanton == CallCanton \/ CantonReturn

SpecCanton == Init /\ [][NextCanton]_vars

SpecFederal == Init /\ [][NextFederal]_vars

----------------------------------------------------------------------------
(* Spellings of a canton name                                              *)

\* Most spaces put before or after a name
MaxPad == 1

NameZuerich    == <<"Z","U+00FC","r","i","c","h">>
NameGeneve     == <<"G","e","n","U+00E8","v","e">>
NameGraubunden == <<"G","r","a","u","b","U+00FC","n","d","e","n">>

BaseNames == {<<"Z","H">>, NameZuerich, <<"G","E">>, NameGeneve, <<"G","R">>,
              NameGraubunden, <<"X","X">>}

\* Letters with a diacritic, and the plain letters they are built on
Plain == ("U+00FC" :> "u") @@ ("U+00DC" :> "U") @@ ("U+00E8" :> "e") @@ ("U+00C8" :> "E")
Marked == ("u" :> "U+00FC") @@ ("U" :> "U+00DC") @@ ("e" :> "U+00E8") @@ ("E" :> "U+00C8")
OtherCase == LowerMap @@ UpperMap @@ ("U+00FC" :> "U+00DC") @@ ("U+00DC" :> "U+00FC")
               @@ ("U+00E8" :> "U+00C8") @@ ("U+00C8" :> "U+00E8")

\* The name as first given, its spelling now, and the branch each selects
NameState(original, name) ==
    [original |-> original,
     selected_original |-> Jurisdiction(_normalize_canton(original)),
     name |-> name,
     selected |-> Jurisdiction(_normalize_canton(name))]

InitNames ==
    /\ vd = EmptyData
    /\ engine = "names"
    /\ pc = "idle"
    /\ \E n \in BaseNames : loc = NameState(n, n)
    /\ ret = NoRet
    /\ err = "none"

Respell(name) ==
    /\ loc' = [loc EXCEPT !.name = name,
                          !.selected = Jurisdiction(_normalize_canton(name))]
    /\ UNCHANGED <<vd, engine, pc, ret, err>>

FlipCase ==
    /\ engine = "names"
    /\ \E i \in 1..Len(loc.name) :
          /\ loc.name[i] \in DOMAIN OtherCase
          /\ Respell([loc.name EXCEPT ![i] = OtherCase[loc.name[i]]])

AddDiacritic ==
    /\ engine = "names"
    /\ \E i \in 1..Len(loc.name) :
          /\ loc.name[i] \in DOMAIN Marked
          /\ Respell([loc.name EXCEPT ![i] = Marked[loc.name[i]]])

RemoveDiacritic ==
    /\ engine = "names"
    /\ \E i \in 1..Len(loc.name) :
          /\ loc.name[i] \in DOMAIN Plain
          /\ Respell([loc.name EXCEPT ![i] = Plain[loc.name[i]]])

PadLeft ==
    /\ engine = "names"
    /\ Len(loc.name) - Len(LStrip(loc.name)) < MaxPad
    /\ Respell(<<" ">> \o loc.name)

PadRight ==
    /\ engine = "names"
    /\ Len(loc.name) - Len(RStrip(loc.name)) < MaxPad
    /\ Respell(Append(loc.name, " "))

NextNames == FlipCase \/ AddDiacritic \/ RemoveDiacritic \/ PadLeft \/ PadRight

SpecNames == InitNames /\ [][NextNames]_vars

----------------------------------------------------------------------------
(* calculate_lca: the loop over the vehicles of a swisscargo request.  The  *)
(* request (in vd) gives, for each vehicle, the dictionary the engines      *)
(* read, and what initialize_model yields for it: its errors, its           *)
(* functional unit and its cargo mass.  loc holds the index of the vehicle  *)
(* in progress, the conversion factor and what has been written into each   *)
(* vehicle; ret is the HTTP response.                                       *)

\* Most vehicles in a request
MaxVehicles == 2

\* Variant of the conversion that divides by the cargo mass in kilograms
FactorPerKg(func_unit, cargo_mass) ==
    IF func_unit = "vkm" THEN RInt(1) ELSE RDiv(RInt(1), RInt(cargo_mass))

\* factor = 1 if func_unit == "vkm" else 1 / (cargo mass / 1000)
Factor(func_unit, cargo_mass) ==
    IF func_unit = "vkm" THEN RInt(1)
    ELSE RDiv(RInt(1), RDiv(RInt(cargo_mass), RInt(1000)))

\* What the loop has written into a vehicle so far
NoOutput ==
    [keys |-> {}, road_charge_details |-> NoRet, canton_tax_details |-> NoRet,
     cost_results |-> [keys |-> {}, CO2_tax_cost |-> RZero,
                       canton_road_charge_cost |-> RZero]]

\* The model's own "CO2 tax cost", before the road charge replaces it
ModelCO2TaxCost == Rat(1, 100)

\* Variant in which an engine's exception is caught and the loop is left
Swallowed(e) == [pc |-> "respond", err |-> e, ret |-> NoRet]

\* No try/except around the engines: the exception leaves the view, and the
\* request is answered without a body built from data
Unhandled(e) ==
    [pc |-> "failed", err |-> e,
     ret |-> [status |-> 500, error |-> "Internal Server Error", vehicles |-> <<>>]]

RouteVehicle(data, func_unit, cargo_mass, errors) ==
    [data |-> data, func_unit |-> func_unit, cargo_mass |-> cargo_mass,
     errors |-> errors]

Size18t == <<Present(StrVal(<<"1","8","t">>)), Absent(<<>>), "midpoint">>

RouteData ==
    {CantonData(<<"Z","H">>, S_ICEV_d, Size18t, RInt(1000), 2023, 2, 2014,
                Absent(<<>>), Absent(RZero), Absent(0), Absent(0)),
     CantonData(<<"G","E">>, S_BEV, Size18t, Rat(25, 2), 2029, 1, 2014,
                Absent(<<>>), Absent(RZero), Absent(0), Absent(0)),
     CantonData(<<"X","X">>, S_BEV, Size18t, RInt(1000), 2029, 2, 2014,
                Absent(<<>>), Absent(RZero), Absent(0), Absent(0)),
     CantonData(<<"T","I">>, S_ICEV_d, Size18t, RInt(1000), 2023, 1, 2014,
                Absent(<<>>), Absent(RZero), Absent(0), Absent(0)),
     CantonData(<<"Z","H">>, S_ICEV_d, Size18t, RInt(1000), 2025, 0, 2014,
                Absent(<<>>), Absent(RZero), Absent(0), Absent(0)),
     CantonData(<<"Z","H">>, <<"I","C","E","V","-","p">>, Size18t, RInt(1000),
                2023, 1, 2014, Absent(<<>>), Absent(RZero), Absent(0), Absent(0))}

RouteVehicles ==
    {RouteVehicle(d, u[1], u[2], FALSE) :
        d \in RouteData, u \in {<<"vkm", 8000>>, <<"tkm", 8000>>, <<"tkm", 5000>>}}
    \cup {RouteVehicle(d, "vkm", 8000, TRUE) :
            d \in {CantonData(<<"Z","H">>, S_ICEV_d, Size18t, RInt(1000), 2023, 2,
                              2014, Absent(<<>>), Absent(RZero), Absent(0),
                              Absent(0))}}

Requests == UNION {[1..n -> RouteVehicles] : n \in 1..MaxVehicles}

\* Line 139: "for vehicle in data['vehicles']" is about to start
ReceiveRequest ==
    /\ engine = "idle"
    /\ \E vehicles \in Requests :
          /\ vd' = [vehicles |-> vehicles]
          /\ loc' = [i |-> 1, factor |-> RZero,
                     vehicles |-> [k \in 1..Len(vehicles) |-> NoOutput]]
    /\ engine' = "routes"
    /\ pc' = "model"
    /\ UNCHANGED <<ret, err>>

\* Lines 140-162: initialize_model, its errors, the factor, the cost results
InitializeModel ==
    /\ engine = "routes"
    /\ pc = "model"
    /\ \E v \in {vd.vehicles[loc.i]} :
          IF v.errors THEN
             /\ pc' = "responded"
             /\ ret' = [status |-> 500, error |-> "Output validation issues",
                        vehicles |-> <<>>]
             /\ UNCHANGED loc
          ELSE
             \E factor \in {Factor(v.func_unit, v.cargo_mass)} :
                /\ pc' = "federal"
                /\ loc' = [loc EXCEPT
                      !.factor = factor,
                      !.vehicles[loc.i].keys = @ \cup {"results", "cost_results"},
                      !.vehicles[loc.i].cost_results.keys = {"CO2 tax cost"},
                      !.vehicles[loc.i].cost_results.CO2_tax_cost =
                          RMul(ModelCO2TaxCost, factor)]
                /\ UNCHANGED ret
    /\ UNCHANGED <<vd, engine, err>>

\* Lines 222-226: the federal road charge of the vehicle
RoadCharge ==
    /\ engine = "routes"
    /\ pc = "federal"
    /\ \E lsva_costs \in {calculate_lsva_charge_period(vd.vehicles[loc.i].data)} :
          IF lsva_costs.raised THEN
             \E out \in {Unhandled(lsva_costs.err)} :
                /\ pc' = out.pc
                /\ err' = out.err
                /\ ret' = out.ret
                /\ UNCHANGED loc
          ELSE
             /\ pc' = "canton"
             /\ loc' = [loc EXCEPT
                   !.vehicles[loc.i].keys = @ \cup {"road charge details"},
                   !.vehicles[loc.i].cost_results.CO2_tax_cost =
                       RMul(lsva_costs.result.cost_per_km_chf, loc.factor),
                   !.vehicles[loc.i].road_charge_details = lsva_costs.result]
             /\ UNCHANGED <<ret, err>>
    /\ UNCHANGED <<vd, engine>>

\* Lines 228-231: the cantonal road charge of the vehicle
CantonRoadCharge ==
    /\ engine = "routes"
    /\ pc = "canton"
    /\ \E canton_road_charge \in {canton_truck_tax(vd.vehicles[loc.i].data)} :
          IF canton_road_charge.raised THEN
             \E out \in {Unhandled(canton_road_charge.err)} :
                /\ pc' = out.pc
                /\ err' = out.err
                /\ ret' = out.ret
                /\ UNCHANGED loc
          ELSE
             /\ pc' = "harvest"
             /\ loc' = [loc EXCEPT
                   !.vehicles[loc.i].keys = @ \cup {"canton tax details"},
                   !.vehicles[loc.i].cost_results.keys =
                       @ \cup {"canton road charge cost"},
                   !.vehicles[loc.i].cost_results.canton_road_charge_cost =
                       RMul(canton_road_charge.result.chf_per_km, loc.factor),
                   !.vehicles[loc.i].canton_tax_details = canton_road_charge.result]
             /\ UNCHANGED <<ret, err>>
    /\ UNCHANGED <<vd, engine>>

\* Lines 236-268: the vehicle's parameters are harvested, the loop moves on
Harvest ==
    /\ engine = "routes"
    /\ pc = "harvest"
    /\ pc' = IF loc.i < Len(vd.vehicles) THEN "model" ELSE "respond"
    /\ loc' = [loc EXCEPT !.i = @ + 1,
                          !.vehicles[loc.i].keys = @ \cup {"functional unit", "country"}]
    /\ UNCHANGED <<vd, engine, ret, err>>

\* Lines 293-297: the response carries data, the vehicles as written
Respond ==
    /\ engine = "routes"
    /\ pc = "respond"
    /\ pc' = "responded"
    /\ ret' = [status |-> 200, error |-> "none", vehicles |-> loc.vehicles]
    /\ UNCHANGED <<vd, engine, loc, err>>

NextRoutes ==
    ReceiveRequest \/ InitializeModel \/ RoadCharge \/ CantonRoadCharge
        \/ Harvest \/ Respond

SpecRoutes == Init /\ [][NextRoutes]_vars

----------------------------------------------------------------------------
(* The weight-driven formulas along the weight axis: a vehicle of a given  *)
(* canton, powertrain, Euro class and year is made heavier step by step,    *)
(* and the formula is applied at every step.  Every bracket boundary of     *)
(* the seven formulas is a multiple of 100 kg, so the steps go from a       *)
(* multiple of 100 kg to the kilogram after it and on to the next multiple. *)

\* Heaviest vehicle tried, in units of 100 kg: past the last boundary of any
\* of the formulas (32000 kg)
MaxHecto == 340

WeightDriven ==
    {<<"z","h">>, <<"g","e">>, <<"v","d">>, <<"g","r">>, <<"v","s">>, <<"b","l">>,
     <<"f","r">>}

\* Lines 405-452: the formula the dispatch applies for the canton
WeightTariff(canton, weight_kg, pt, euro, year) ==
    IF canton \in ZH THEN _zurich_annual(weight_kg, euro, pt)
    ELSE IF canton \in GE THEN _geneva_annual(weight_kg, year, pt)
    ELSE IF canton \in VD THEN _vaud_annual(weight_kg, pt, euro)
    ELSE IF canton \in GR THEN _graubuenden_annual(weight_kg, pt)
    ELSE IF canton \in VS THEN _valais_annual(weight_kg)
    ELSE IF canton \in BL THEN _baselland_annual(weight_kg)
    ELSE _fribourg_annual(weight_kg)

TariffState(canton, pt, euro, year, weight_kg, lighter_kg) ==
    [canton |-> canton, pt |-> pt, euro |-> euro, year |-> year,
     weight_kg |-> weight_kg,
     annual |-> WeightTariff(canton, weight_kg, pt, euro, year),
     lighter_kg |-> lighter_kg,
     lighter_annual |-> WeightTariff(canton, lighter_kg, pt, euro, year)]

InitTariff ==
    /\ vd = EmptyData
    /\ engine = "tariff"
    /\ pc = "idle"
    /\ \E canton \in WeightDriven, pt \in {S_BEV, S_ICEV_d},
          euro \in {S_Euro5, S_Euro6}, year \in {2024, 2025} :
          loc = TariffState(canton, pt, euro, year, 1, 1)
    /\ ret = NoRet
    /\ err = "none"

Reweigh(weight_kg) ==
    /\ loc' = TariffState(loc.canton, loc.pt, loc.euro, loc.year, weight_kg,
                          loc.weight_kg)
    /\ UNCHANGED <<vd, engine, pc, ret, err>>

\* One kilogram more, from a multiple of 100 kg
CrossBoundary ==
    /\ engine = "tariff"
    /\ loc.weight_kg % 100 = 0
    /\ loc.weight_kg < 100 * MaxHecto
    /\ Reweigh(loc.weight_kg + 1)

\* Up to the next multiple of 100 kg
FillBracket ==
    /\ engine = "tariff"
    /\ loc.weight_kg % 100 # 0
    /\ Reweigh(100 * (loc.weight_kg \div 100) + 100)

NextTariff == CrossBoundary \/ FillBracket

SpecTariff == InitTariff /\ [][NextTariff]_vars

----------------------------------------------------------------------------
(* Properties of calculate_lsva_charge_period                              *)

FederalReturned == engine = "federal" /\ pc = "returned"

KmPerYear == vd["kilometers per year"]

\* The manufacture year: 'year', or purchase_year when 'year' is absent
ManufYearOf(v) == IF "year" \in v.keys THEN v.year ELSE v.purchase_year

\* C1: every result of calculate_lsva_charge_period has exactly one breakdown
\* entry per calendar year purchase_year, ..., resale_year - 1, in ascending
\* order, and no entry for resale_year or any other year.
C1_BreakdownYears ==
    FederalReturned =>
        /\ Len(ret.breakdown) = vd.resale_year - vd.purchase_year
        /\ \A i \in 1..Len(ret.breakdown) :
              ret.breakdown[i].year = vd.purchase_year + i - 1

C1_Witness ==
    /\ FederalReturned
    /\ Len(ret.breakdown) >= 2
    /\ ret.breakdown[Len(ret.breakdown)].year = vd.resale_year - 1

\* The BEV/FCEV tariff as the specification words it
SpecifiedZeroEmissionRate(y) ==
    IF y <= 2028 THEN RZero
    ELSE IF y <= 2035
        THEN RMul(Rat(239, 10000), RSub(RInt(1), Rat(7 - (y - 2029), 10)))
    ELSE Rat(239, 10000)

\* C2: for powertrain BEV or FCEV every evaluated year y is rated 0 when
\* y <= 2028, Category III x (1 - rebate(y)) with rebate(y) = 0.7 - 0.1 (y - 2029)
\* when 2029 <= y <= 2035, and Category III (0.0239) when y >= 2036, whatever
\* the manufacture year.
C2_ZeroEmissionRate ==
    (engine = "federal" /\ pc \in {"loop", "returned"}
        /\ Strip(vd.powertrain) \in {S_BEV, S_FCEV}) =>
        \A i \in 1..Len(loc.breakdown) :
            loc.breakdown[i].rate_chf_per_tkm
                = SpecifiedZeroEmissionRate(loc.breakdown[i].year)

C2_Witness ==
    /\ FederalReturned
    /\ vd.powertrain = S_FCEV
    /\ Len(ret.breakdown) >= 3
    /\ ret.breakdown[1].year = 2034 /\ ret.breakdown[1].rate_chf_per_tkm = Rat(1912, 100000)
    /\ ret.breakdown[2].year = 2035 /\ ret.breakdown[2].rate_chf_per_tkm = Rat(2151, 100000)
    /\ ret.breakdown[3].year = 2036 /\ ret.breakdown[3].rate_chf_per_tkm = Rat(239, 10000)

\* The diesel/gas/hybrid tariff as the specification words it
SpecifiedIceRate(manuf_year, y) ==
    IF manuf_year >= 2014
    THEN IF y <= 2028 THEN Rat(239, 10000) ELSE Rat(282, 10000)
    ELSE Rat(326, 10000)

\* C3: for powertrain ICEV-d, ICEV-g, HEV-d or PHEV-d a modern vehicle
\* (manufacture year, or purchase_year when 'year' is absent, >= 2014) is rated
\* Category III (0.0239) in years <= 2028 and Category II (0.0282) from 2029,
\* and an older vehicle Category I (0.0326) in every year.
C3_IceRate ==
    (engine = "federal" /\ pc \in {"loop", "returned"}
        /\ Strip(vd.powertrain) \in {S_ICEV_d, S_ICEV_g, S_HEV_d, S_PHEV_d}) =>
        \A i \in 1..Len(loc.breakdown) :
            loc.breakdown[i].rate_chf_per_tkm
                = SpecifiedIceRate(ManufYearOf(vd), loc.breakdown[i].year)

C3_Witness ==
    /\ FederalReturned
    /\ vd.powertrain = S_HEV_d
    /\ "year" \in vd.keys /\ vd.year = 2014
    /\ Len(ret.breakdown) >= 2
    /\ ret.breakdown[1].year = 2028 /\ ret.breakdown[1].rate_chf_per_tkm = Rat(239, 10000)
    /\ ret.breakdown[2].year = 2029 /\ ret.breakdown[2].rate_chf_per_tkm = Rat(282, 10000)

\* C4: every result has total_charge_chf = the sum of the entries' charge_chf,
\* each entry's charge_chf = its rate x tonnes x km, total_km = km_per_year x
\* the number of entries, and cost_per_km_chf x total_km = total_charge_chf.
C4_Totals ==
    FederalReturned =>
        /\ ret.total_charge_chf
              = RSum([i \in 1..Len(ret.breakdown) |-> ret.breakdown[i].charge_chf])
        /\ \A i \in 1..Len(ret.breakdown) :
              LET e == ret.breakdown[i]
              IN  e.charge_chf = RMul(RMul(e.rate_chf_per_tkm, e.tonnes), e.km)
        /\ ret.total_km = RMul(KmPerYear, RInt(Len(ret.breakdown)))
        /\ RMul(ret.cost_per_km_chf, ret.total_km) = ret.total_charge_chf

C4_Witness ==
    /\ FederalReturned
    /\ Len(ret.breakdown) >= 2
    /\ RLt(RZero, ret.breakdown[1].charge_chf)
    /\ RLt(ret.breakdown[1].charge_chf, ret.total_charge_chf)
    /\ KmPerYear = Rat(3, 2)

\* C5: calculate_lsva_charge_period raises and returns nothing whenever
\* resale_year <= purchase_year or 'kilometers per year' <= 0, for every
\* powertrain and size supplied.
C5_InvalidWindowRaises ==
    (engine = "federal"
        /\ (vd.resale_year <= vd.purchase_year \/ RLe(KmPerYear, RZero))) =>
        /\ pc = "raised"
        /\ err # "none"
        /\ ret = NoRet

C5_Witness ==
    /\ engine = "federal"
    /\ pc = "raised"
    /\ vd.resale_year = vd.purchase_year
    /\ RLt(RZero, KmPerYear)
    /\ err = "'resale_year' must be strictly greater than 'purchase_year'."
    /\ ret = NoRet

\* The six powertrains of the federal tariff
FederalKnown == {S_BEV, S_FCEV, S_ICEV_d, S_ICEV_g, S_HEV_d, S_PHEV_d}

\* A call with a powertrain outside the tariff fails with the
\* unsupported-powertrain error: it never returns, and it has no breakdown
\* entry when it raises.
UnsupportedFails ==
    /\ pc # "returned"
    /\ ret = NoRet
    /\ pc = "raised" => err = "Unsupported powertrain"
    /\ pc \in {"loop", "raised"} => loc.breakdown = <<>>
    /\ pc = "loop" => Len(loc.years) > 0

\* C7 as written: any powertrain value other than BEV, FCEV, ICEV-d, ICEV-g,
\* HEV-d, PHEV-d fails with the unsupported-powertrain error for every
\* otherwise valid input, with no rate defaulted and no result returned.
C7_AnyOtherValueFails ==
    (engine = "federal" /\ FederalValidate(vd) = "ok"
        /\ vd.powertrain \notin FederalKnown) => UnsupportedFails

\* C7, amended: the powertrain is compared after str.strip(), so it is any
\* value that is none of the six once its surrounding whitespace is removed
\* that fails with the unsupported-powertrain error; no rate is defaulted and
\* no result, not even a partial breakdown, is returned.
C7_OtherStrippedValueFails ==
    (engine = "federal" /\ FederalValidate(vd) = "ok"
        /\ Strip(vd.powertrain) \notin FederalKnown) => UnsupportedFails

C7_Witness ==
    /\ engine = "federal"
    /\ FederalValidate(vd) = "ok"
    /\ vd.powertrain = <<"b","e","v">>
    /\ pc = "raised"
    /\ err = "Unsupported powertrain"
    /\ loc.breakdown = <<>>
    /\ ret = NoRet

\* C8: an explicit euro_class selects the rate category instead of the
\* manufacture year: a diesel/gas/hybrid vehicle made in 2014 or later with an
\* older-era euro_class is charged Category I, one made before 2014 with a
\* modern-era euro_class Category III (to 2028) or II (from 2029).
C8_EuroClassOverridesYear ==
    (engine = "federal" /\ pc \in {"loop", "returned"}
        /\ Strip(vd.powertrain) \in {S_ICEV_d, S_ICEV_g, S_HEV_d, S_PHEV_d}
        /\ "euro_class" \in vd.keys) =>
        \A i \in 1..Len(loc.breakdown) :
            loc.breakdown[i].rate_chf_per_tkm
                = SpecifiedIceRate(IF vd.euro_class = S_Euro6 THEN 2014 ELSE 2013,
                                   loc.breakdown[i].year)

----------------------------------------------------------------------------
(* Properties of canton_truck_tax                                          *)

CantonReturned == engine = "cantonal" /\ pc = "returned"

RAbs(a) == IF a.n >= 0 THEN a ELSE RNeg(a)

\* C6: canton_truck_tax raises and returns nothing whenever resale_year <=
\* purchase_year or 'kilometers per year' <= 0; it never returns a result with
\* zero or negative years, total_tax_chf or total_km.
C6_CantonInvalidWindowRaises ==
    /\ (engine = "cantonal"
          /\ (vd.resale_year <= vd.purchase_year \/ RLe(KmPerYear, RZero)))
       => (pc # "returned" /\ ret = NoRet)
    /\ CantonReturned =>
          /\ ret.years > 0
          /\ RLt(RZero, ret.total_tax_chf)
          /\ ret.total_km > 0

\* The cantons whose formula is evaluated year by year
YearDependent == GE \cup BE

\* C9 as written: every successful call has years = resale_year -
\* purchase_year + 1, total_km = km_per_year x years and, where the formula
\* does not depend on the calendar year, total_tax_chf = annual tax x years.
C9_InclusiveTotalsExact ==
    CantonReturned =>
        /\ ret.years = vd.resale_year - vd.purchase_year + 1
        /\ RInt(ret.total_km) = RMul(KmPerYear, RInt(ret.years))
        /\ loc.canton \notin YearDependent =>
              ret.total_tax_chf = RMul(ret.annual_tax_chf, RInt(ret.years))

\* C9, amended: every successful call has years = resale_year - purchase_year
\* + 1 and total_km = km_per_year x years truncated to an integer; where the
\* formula does not depend on the calendar year, total_tax_chf is the annual
\* tax x years rounded to cents, so it differs from annual_tax_chf x years by
\* at most 0.005 x (|years| + 1).
C9_InclusiveTotalsRounded ==
    CantonReturned =>
        /\ ret.years = vd.resale_year - vd.purchase_year + 1
        /\ ret.total_km = Trunc(RMul(KmPerYear, RInt(ret.years)))
        /\ loc.canton \notin YearDependent =>
              /\ ret.total_tax_chf = Round(ret.total_tax_chf, 2)
              /\ RLe(RAbs(RSub(ret.total_tax_chf,
                               RMul(ret.annual_tax_chf, RInt(ret.years)))),
                     Rat(5 * (Abs(ret.years) + 1), 1000))

\* Basel-Landschaft, 18 t, three years: 2186.028 a year, 6558.08 in total
C9_Witness ==
    /\ CantonReturned
    /\ loc.canton \in BL
    /\ ret.years = 3
    /\ KmPerYear = Rat(25, 2)
    /\ ret.total_km = 37
    /\ ret.annual_tax_chf = Rat(218603, 100)
    /\ ret.total_tax_chf = Rat(655808, 100)

RECURSIVE SumOfEntries(_)
SumOfEntries(per_year) ==
    IF per_year = <<>> THEN RZero
    ELSE RAdd(Head(per_year).annual_tax_chf, SumOfEntries(Tail(per_year)))

\* C10: for every valid input and each of the ten supported cantons the
\* result carries a per-year breakdown with one entry per year of the
\* ownership window, and total_tax_chf is the sum of the entries' charges.
C10_PerYearBreakdown ==
    (CantonReturned /\ vd.resale_year > vd.purchase_year /\ RLt(RZero, KmPerYear)) =>
        /\ ret.has_per_year
        /\ Len(ret.per_year) = ret.years
        /\ \A i \in 1..Len(ret.per_year) :
              ret.per_year[i].year = vd.purchase_year + i - 1
        /\ ret.total_tax_chf = SumOfEntries(ret.per_year)

UnparseableWeight == "Provide 'size' or a parseable 'original class name'."

Abbreviations ==
    {<<NameZuerich, <<"Z","H">> >>, <<NameGeneve, <<"G","E">> >>,
     <<NameGraubunden, <<"G","R">> >>,
     <<<<"V","a","u","d">>, <<"V","D">> >>, <<<<"T","i","c","i","n","o">>, <<"T","I">> >>,
     <<<<"V","a","l","a","i","s">>, <<"V","S">> >>, <<<<"B","e","r","n">>, <<"B","E">> >>,
     <<<<"B","a","s","e","l","-","L","a","n","d","s","c","h","a","f","t">>, <<"B","L">> >>,
     <<<<"F","r","i","b","o","u","r","g">>, <<"F","R">> >>,
     <<<<"A","a","r","g","a","u">>, <<"A","G">> >> }

\* C12: every spelling obtained from a canton name by changing letter case,
\* adding or removing diacritics, or padding with spaces selects the same
\* jurisdiction formula as the name itself, and the official name and its
\* two-letter abbreviation select the same formula.
C12_SpellingInvariant ==
    /\ engine = "names" => loc.selected = loc.selected_original
    /\ (engine = "names" /\ loc.name = loc.original) =>
       \A p \in Abbreviations :
          /\ Jurisdiction(_normalize_canton(p[1])) # 0
          /\ Jurisdiction(_normalize_canton(p[1])) = Jurisdiction(_normalize_canton(p[2]))

C12_Witness ==
    /\ engine = "names"
    /\ loc.original = NameGraubunden
    /\ loc.name = <<" ","g","R","a","U+00DC","b","u","n","d","U+00C8","N"," ">>
    /\ loc.selected = 5

\* The tonnage of a band as the specification words it
SpecifiedBandTonnes(lo, hi, strategy) ==
    IF ~hi.ok THEN lo.v
    ELSE IF strategy = "midpoint" THEN RDiv(RAdd(lo.v, hi.v), RInt(2))
    ELSE IF strategy = "upper" THEN hi.v
    ELSE lo.v

\* C13: a closed band [min, max] resolves to (min + max) / 2 with 'midpoint',
\* max with 'upper' and min with 'lower' ([20, 26] with midpoint gives 23.0);
\* an open-ended band ('>32t') resolves to its lower bound whatever the
\* strategy.
C13_BandResolution ==
    (engine = "cantonal" /\ loc # NoLoc /\ loc.weight_source = "original class name") =>
        LET p == _parse_original_class(vd["original class name"])
        IN  /\ p.ok
            /\ vd.band_estimation \in {"midpoint", "upper", "lower"}
            /\ loc.tonnes = Some(SpecifiedBandTonnes(p.lo, p.hi, vd.band_estimation))
            /\ vd["original class name"] = C_LKW_20_26 =>
                  /\ p.lo = Some(RInt(20)) /\ p.hi = Some(RInt(26))
                  /\ vd.band_estimation = "midpoint" => loc.tonnes.v = RInt(23)
            /\ vd["original class name"] = C_LZSZ_32 =>
                  /\ p.lo = Some(RInt(32)) /\ ~p.hi.ok
                  /\ loc.tonnes.v = RInt(32)

C13_Witness ==
    /\ CantonReturned
    /\ vd["original class name"] = C_LZSZ_32
    /\ vd.band_estimation = "upper"
    /\ ret.weight_source = "original class name"
    /\ ret.tonnes_used = Some(RInt(32))

\* C14: an explicit weight is resolved to the same tonnage by both entry
\* points whatever its form (a bare number, '<v>t', '<v> t', comma or dot as
\* decimal separator): the tonnage calculate_lsva_charge_period uses is the
\* one canton_truck_tax resolves from the same 'size'.
C14_SameTonnage ==
    (engine = "federal"
        /\ "size" \in vd.keys
        /\ _parse_tonnes(TRUE, vd.size).ok
        /\ RLt(RZero, _parse_tonnes(TRUE, vd.size).v)
        /\ RLt(RZero, KmPerYear)
        /\ vd.resale_year > vd.purchase_year) =>
        /\ loc # NoLoc
        /\ loc.tonnes = _parse_tonnes(TRUE, vd.size).v

\* What 'size' and the class-band descriptor of the call yield on their own
SizeTonnage == _parse_tonnes("size" \in vd.keys, vd.size)
BandParsed == _parse_original_class(Get(vd, "original class name", <<>>))

\* C15: canton_truck_tax takes the tonnage from 'size' when it yields a
\* number and from the class band only when it does not; when neither yields
\* a tonnage the call fails with the unparseable-weight error, except for
\* Aargau, which proceeds and reports no tonnage.
C15_WeightResolution ==
    engine = "cantonal" =>
        /\ (SizeTonnage.ok \/ BandParsed.ok) =>
              /\ loc # NoLoc
              /\ err # UnparseableWeight
        /\ SizeTonnage.ok =>
              /\ loc.weight_source = "size"
              /\ loc.tonnes = SizeTonnage
              /\ loc.vehicle_type = "None"
        /\ (~SizeTonnage.ok /\ BandParsed.ok) =>
              /\ loc.weight_source = "original class name"
              /\ loc.tonnes.ok
              /\ loc.vehicle_type = BandParsed.vehicle_type
        /\ (~SizeTonnage.ok /\ ~BandParsed.ok /\ _normalize_canton(vd.canton) \notin AG) =>
              /\ pc = "raised"
              /\ err = UnparseableWeight
              /\ ret = NoRet
        /\ (~SizeTonnage.ok /\ ~BandParsed.ok /\ _normalize_canton(vd.canton) \in AG) =>
              /\ err # UnparseableWeight
              /\ loc # NoLoc
              /\ ~loc.tonnes.ok
              /\ pc = "returned" =>
                    /\ ret.tonnes_used = None
                    /\ ret.weight_source = "None"

C15_Witness ==
    /\ CantonReturned
    /\ _normalize_canton(vd.canton) \in AG
    /\ "size" \in vd.keys /\ vd.size = StrVal(<<"a","b","c">>)
    /\ "original class name" \notin vd.keys
    /\ ret.tonnes_used = None
    /\ ret.annual_tax_chf = RInt(852)

TicinoNeedsPower == "Ticino requires 'power' (kW)."
AargauNeedsCargo == "Aargau requires 'cargo mass' (Nutzlast) for trucks."

Scenario2 ==
    /\ FederalReturned
    /\ Strip(vd.powertrain) = S_BEV
    /\ vd.size = StrVal(<<"3","2","t">>)
    /\ KmPerYear = RInt(107000)
    /\ vd.purchase_year = 2029
    /\ vd.resale_year = 2030

\* The year and the rate Scenario 2 is charged for
Scenario2Year ==
    /\ Len(ret.breakdown) = 1
    /\ ret.breakdown[1].year = 2029
    /\ ret.breakdown[1].tonnes = RInt(32)
    /\ ret.breakdown[1].rate_chf_per_tkm = RMul(Rat(239, 10000), RSub(RInt(1), Rat(7, 10)))
    /\ ret.breakdown[1].rate_chf_per_tkm = Rat(717, 100000)

\* C17 as stated: Scenario 2 evaluates exactly the year 2029 at rate
\* 0.0239 x (1 - 0.7) = 0.00717 and returns a charge of about 24549.79 and a
\* cost per kilometre of about 0.2294.
C17_Scenario2AsStated ==
    Scenario2 =>
        /\ Scenario2Year
        /\ Round(ret.total_charge_chf, 2) = Rat(2454979, 100)
        /\ Round(ret.cost_per_km_chf, 4) = Rat(2294, 10000)

\* C17, amended: Scenario 2 evaluates exactly the year 2029 at rate
\* 0.0239 x (1 - 0.7) = 0.00717 and returns a charge of 0.00717 x 32 x 107000
\* = 24550.08 and a cost per kilometre of 0.22944, about 0.2294.
C17_Scenario2 ==
    Scenario2 =>
        /\ Scenario2Year
        /\ ret.total_charge_chf = Rat(2455008, 100)
        /\ ret.total_km = RInt(107000)
        /\ ret.cost_per_km_chf = Rat(22944, 100000)
        /\ Round(ret.cost_per_km_chf, 4) = Rat(2294, 10000)

C17_Witness ==
    /\ Scenario2
    /\ vd.powertrain = S_BEV
    /\ ret.total_charge_chf = Rat(2455008, 100)

\* The Zuerich tariff as specified, in whole francs: 254, plus 35 for every
\* started 500 kg above 4000 kg, plus a surcharge of 300 or 900
SpecifiedZurich(weight_kg, zero_emission, modern_era) ==
    254 + (IF weight_kg > 4000 THEN 35 * ((weight_kg - 4000 + 499) \div 500) ELSE 0)
        + (IF zero_emission \/ modern_era THEN 300 ELSE 900)

GenevaBracketAmount(weight_kg) ==
    IF weight_kg <= 3500 THEN Rat(3505, 10)
    ELSE IF weight_kg > 13000 THEN RInt(1837)
    ELSE RInt(Bracket(GenevaBrackets, weight_kg, 0))

\* Half the bracket amount for BEV/FCEV from 2025 on, the whole amount otherwise
SpecifiedGeneva(weight_kg, year, powertrain) ==
    IF Upper(powertrain) \in {S_BEV, S_FCEV} /\ year >= 2025
    THEN RDiv(GenevaBracketAmount(weight_kg), RInt(2))
    ELSE GenevaBracketAmount(weight_kg)

RECURSIVE SpecifiedGenevaSum(_, _, _, _)
SpecifiedGenevaSum(weight_kg, from, to, powertrain) ==
    IF from > to THEN RZero
    ELSE RAdd(SpecifiedGeneva(weight_kg, from, powertrain),
              SpecifiedGenevaSum(weight_kg, from + 1, to, powertrain))

\* C19: Geneve is evaluated once per ownership year: for BEV/FCEV the amount
\* of year y is half the weight-bracket amount when y >= 2025 and the whole
\* amount when y < 2025, for other powertrains always the whole amount; the
\* total is the sum of the per-year amounts over purchase_year..resale_year,
\* so a window straddling 2025 is charged neither the full nor the reduced
\* amount throughout.
C19_GenevaPerYear ==
    (CantonReturned /\ loc.canton \in GE /\ vd.resale_year >= vd.purchase_year) =>
        /\ ret.has_per_year
        /\ Len(ret.per_year) = vd.resale_year - vd.purchase_year + 1
        /\ \A i \in 1..Len(ret.per_year) :
              /\ ret.per_year[i].year = vd.purchase_year + i - 1
              /\ ret.per_year[i].annual_tax_chf =
                    SpecifiedGeneva(loc.weight_kg, ret.per_year[i].year, loc.pt)
        /\ ret.total_tax_chf =
              Round(SpecifiedGenevaSum(loc.weight_kg, vd.purchase_year,
                                       vd.resale_year, loc.pt), 2)
        /\ ret.total_tax_chf = SumOfEntries(ret.per_year)
        /\ (Upper(loc.pt) \in {S_BEV, S_FCEV}
                /\ vd.purchase_year < 2025 /\ vd.resale_year >= 2025) =>
              /\ RLt(ret.total_tax_chf,
                     RMul(GenevaBracketAmount(loc.weight_kg), RInt(ret.years)))
              /\ RLt(RMul(RDiv(GenevaBracketAmount(loc.weight_kg), RInt(2)),
                          RInt(ret.years)),
                     ret.total_tax_chf)

\* A BEV of 18 t kept from 2023 to 2025: 1837 + 1837 + 918.50
C19_Witness ==
    /\ CantonReturned
    /\ loc.canton \in GE
    /\ loc.pt = S_BEV
    /\ loc.weight_kg = 18000
    /\ vd.purchase_year = 2023
    /\ vd.resale_year = 2025
    /\ ret.per_year[1].annual_tax_chf = RInt(1837)
    /\ ret.per_year[3] = [year |-> 2025, annual_tax_chf |-> Rat(1837, 2)]
    /\ ret.total_tax_chf = Rat(45925, 10)

\* The year of first registration, the manufacture year when none is given
FirstRegistrationYear ==
    IF "first_registration_year" \in vd.keys
    THEN vd.first_registration_year ELSE vd.year

\* Bern's amount without the additional reduction
BernUnreduced(weight_kg, powertrain) ==
    _geometric_sum(weight_kg, IF Upper(powertrain) = S_BEV THEN RInt(120) ELSE RInt(240))

\* 40% of the amount for a BEV in the year of first registration and the
\* three years after it, the whole amount otherwise
SpecifiedBern(weight_kg, powertrain, first_reg, year) ==
    IF Upper(powertrain) = S_BEV /\ first_reg <= year /\ year <= first_reg + 3
    THEN RMul(BernUnreduced(weight_kg, powertrain), RSub(RInt(1), Rat(60, 100)))
    ELSE BernUnreduced(weight_kg, powertrain)

RECURSIVE SpecifiedBernSum(_, _, _, _, _)
SpecifiedBernSum(weight_kg, powertrain, first_reg, from, to) ==
    IF from > to THEN RZero
    ELSE RAdd(SpecifiedBern(weight_kg, powertrain, first_reg, from),
              SpecifiedBernSum(weight_kg, powertrain, first_reg, from + 1, to))

\* C20: for Bern the amount of ownership year y of a BEV carries the
\* additional 60% reduction exactly when first_registration_year <= y <=
\* first_registration_year + 3, where the first registration year is the
\* manufacture year when absent; other powertrains are never reduced; the
\* total is the sum of the per-year amounts over purchase_year..resale_year.
C20_BernPerYear ==
    (CantonReturned /\ loc.canton \in BE /\ vd.resale_year >= vd.purchase_year) =>
        /\ Len(ret.per_year) = vd.resale_year - vd.purchase_year + 1
        /\ \A i \in 1..Len(ret.per_year) :
              /\ ret.per_year[i].year = vd.purchase_year + i - 1
              /\ ret.per_year[i].annual_tax_chf =
                    Round(SpecifiedBern(loc.weight_kg, loc.pt, FirstRegistrationYear,
                                        ret.per_year[i].year), 2)
              /\ Upper(loc.pt) # S_BEV =>
                    ret.per_year[i].annual_tax_chf =
                        Round(_geometric_sum(loc.weight_kg, RInt(240)), 2)
        /\ ret.total_tax_chf =
              Round(SpecifiedBernSum(loc.weight_kg, loc.pt, FirstRegistrationYear,
                                     vd.purchase_year, vd.resale_year), 2)

\* A BEV of 3.5 t made in 2022, no first registration year given, kept from
\* 2025 to 2027: reduced in 2025, unreduced in 2026 and 2027
C20_Witness ==
    /\ CantonReturned
    /\ loc.canton \in BE
    /\ loc.pt = S_BEV
    /\ loc.weight_kg = 3500
    /\ "first_registration_year" \notin vd.keys
    /\ vd.year = 2022
    /\ vd.purchase_year = 2025
    /\ vd.resale_year = 2027
    /\ ret.per_year[1].annual_tax_chf =
          Round(RMul(BernUnreduced(3500, S_BEV), Rat(4, 10)), 2)
    /\ ret.per_year[2].annual_tax_chf = Round(BernUnreduced(3500, S_BEV), 2)
    /\ ret.per_year[3].annual_tax_chf = ret.per_year[2].annual_tax_chf
    /\ RLt(ret.per_year[1].annual_tax_chf, ret.per_year[2].annual_tax_chf)

\* The powertrains the specification counts as zero-emission or hybrid
ZeroOrHybrid == {S_BEV, S_FCEV, Upper(S_HEV_d), Upper(S_PHEV_d)}

\* C21: for Graubuenden every zero-emission (BEV, FCEV) or hybrid (HEV-d,
\* PHEV-d) vehicle pays exactly 20% of the secondary-category weight tariff
\* for its weight, and every other powertrain pays the primary tariff.
C21_GraubuendenReduced ==
    (CantonReturned /\ loc.canton \in GR /\ vd.resale_year >= vd.purchase_year) =>
        ret.annual_tax_chf =
            Round(IF Upper(loc.pt) \in ZeroOrHybrid
                  THEN RMul(Rat(20, 100), _gr_cat2(loc.weight_kg))
                  ELSE _graubuenden_annual(loc.weight_kg, S_ICEV_d), 2)

\* Valais as specified up to 23000 kg: 400, plus 57.50 for every started
\* 1000 kg above 4000 kg
SpecifiedValaisStep(weight_kg) ==
    IF weight_kg <= 4000 THEN RInt(400)
    ELSE RAdd(RInt(400),
              RMul(Rat(5750, 100), RInt((weight_kg - 4000 + 999) \div 1000)))

\* C22: for Valais the annual tax rises by one step per started 1000 kg above
\* 4000 kg for every weight up to 23000 kg, and the flat bands apply only to
\* weights above 23000 kg.
C22_ValaisSteps ==
    (CantonReturned /\ loc.canton \in VS /\ vd.resale_year >= vd.purchase_year) =>
        IF loc.weight_kg <= 23000
        THEN ret.annual_tax_chf = Round(SpecifiedValaisStep(loc.weight_kg), 2)
        ELSE ret.annual_tax_chf \in {RInt(1750), RInt(2000)}

\* Vaud's base amount in whole francs: 450, plus 78 for every started 1000 kg
\* above 4000 kg
SpecifiedVaudBase(weight_kg) ==
    450 + (IF weight_kg > 4000 THEN 78 * ((weight_kg - 4000 + 999) \div 1000) ELSE 0)

PayloadKg == vd["cargo mass"]

\* C24: for Aargau the tax depends only on the payload; above the last
\* published band (9500 kg) it is 1608 + 84 x ceil((payload_kg - 9500)/500),
\* 84 being the last published step, and a payload below 1000 kg is rejected
\* with an error rather than taxed.
C24_AargauPayload ==
    /\ AargauBands[Len(AargauBands)] = <<9500, 1608>>
    /\ AargauBands[Len(AargauBands)][2] - AargauBands[Len(AargauBands) - 1][2] = 84
    /\ (engine = "cantonal" /\ _normalize_canton(vd.canton) \in AG
            /\ "cargo mass" \in vd.keys) =>
          /\ PayloadKg < 1000 =>
                /\ pc # "returned"
                /\ ret = NoRet
                /\ pc = "raised" => err = "AG expects payload >= 1'000 kg"
          /\ (PayloadKg >= 1000 /\ pc # "dispatch") =>
                /\ pc = "returned"
                /\ ret.annual_tax_chf =
                      IF PayloadKg > 9500
                      THEN RInt(1608 + 84 * ((PayloadKg - 9500 + 499) \div 500))
                      ELSE RInt(Bracket(AargauBands, PayloadKg, 0))

\* A payload of 12000 kg, five steps past the table: 1608 + 5 x 84
C24_Witness ==
    /\ CantonReturned
    /\ loc.canton \in AG
    /\ PayloadKg = 12000
    /\ ret.annual_tax_chf = RInt(2028)


----------------------------------------------------------------------------
(* Properties of calculate_lca                                             *)

\* The vehicles whose two road charges have been written
Charged == {k \in 1..Len(loc.vehicles) : "canton tax details" \in loc.vehicles[k].keys}

\* What the two engines return for vehicle k of the request
FederalOf(k) == calculate_lsva_charge_period(vd.vehicles[k].data)
CantonalOf(k) == canton_truck_tax(vd.vehicles[k].data)

\* Per vehicle-kilometre: 1; per tonne-kilometre: one over the cargo mass in
\* tonnes
Conversion(k) ==
    IF vd.vehicles[k].func_unit = "vkm" THEN RInt(1)
    ELSE Rat(1000, vd.vehicles[k].cargo_mass)

\* The detail records stored are exactly the engines' results
DetailsAsReturned ==
    \A k \in Charged :
        /\ ~FederalOf(k).raised
        /\ ~CantonalOf(k).raised
        /\ loc.vehicles[k].road_charge_details = FederalOf(k).result
        /\ loc.vehicles[k].canton_tax_details = CantonalOf(k).result

\* C25 as stated: the federal and cantonal per-kilometre figures written
\* into a vehicle's cost results equal the engines' cost_per_km_chf and
\* chf_per_km unchanged, and the detail records stored are exactly the
\* engines' results.
C25_FiguresUnchanged ==
    engine = "routes" =>
        /\ DetailsAsReturned
        /\ \A k \in Charged :
              /\ loc.vehicles[k].cost_results.CO2_tax_cost =
                    FederalOf(k).result.cost_per_km_chf
              /\ loc.vehicles[k].cost_results.canton_road_charge_cost =
                    CantonalOf(k).result.chf_per_km

\* C25, amended: the detail records stored are exactly the engines' results,
\* and the figures written into the cost results are the engines'
\* cost_per_km_chf and chf_per_km multiplied by the vehicle's conversion
\* factor, which is 1 for the functional unit "vkm" and 1000 / cargo mass
\* otherwise; the response carries the vehicles as written.
C25_FiguresConverted ==
    engine = "routes" =>
        /\ DetailsAsReturned
        /\ \A k \in Charged :
              /\ loc.vehicles[k].cost_results.CO2_tax_cost =
                    RMul(FederalOf(k).result.cost_per_km_chf, Conversion(k))
              /\ loc.vehicles[k].cost_results.canton_road_charge_cost =
                    RMul(CantonalOf(k).result.chf_per_km, Conversion(k))
              /\ vd.vehicles[k].func_unit = "vkm" =>
                    /\ loc.vehicles[k].cost_results.CO2_tax_cost =
                          loc.vehicles[k].road_charge_details.cost_per_km_chf
                    /\ loc.vehicles[k].cost_results.canton_road_charge_cost =
                          loc.vehicles[k].canton_tax_details.chf_per_km
        /\ (pc = "responded" /\ ret.status = 200) =>
              /\ ret.vehicles = loc.vehicles
              /\ Charged = 1..Len(vd.vehicles)

\* A request answered with a vehicle per tonne-kilometre, 8 t of cargo: the
\* figures are an eighth of the engines'
C25_Witness ==
    /\ engine = "routes"
    /\ pc = "responded"
    /\ ret.status = 200
    /\ \E k \in 1..Len(ret.vehicles) :
          /\ vd.vehicles[k].func_unit = "tkm"
          /\ vd.vehicles[k].cargo_mass = 8000
          /\ RLt(RZero, ret.vehicles[k].road_charge_details.cost_per_km_chf)
          /\ ret.vehicles[k].cost_results.CO2_tax_cost =
                RDiv(ret.vehicles[k].road_charge_details.cost_per_km_chf, RInt(8))
          /\ ret.vehicles[k].cost_results.canton_road_charge_cost =
                RDiv(ret.vehicles[k].canton_tax_details.chf_per_km, RInt(8))

\* The vehicles of the request for which one of the engines raises
Failing ==
    {k \in 1..Len(vd.vehicles) : FederalOf(k).raised \/ CantonalOf(k).raised}

\* C26: if the federal or the cantonal engine raises for any vehicle of a
\* request, the request ends as a failure: no success response is produced,
\* and the failure response carries no vehicle, also when the federal charge
\* of the failed vehicle had been stored before the cantonal engine raised.
C26_NoPartialResults ==
    engine = "routes" =>
        /\ (pc = "responded" /\ ret.status = 200) => Failing = {}
        /\ pc = "failed" =>
              /\ loc.i \in Failing
              /\ err = (IF FederalOf(loc.i).raised
                        THEN FederalOf(loc.i).err ELSE CantonalOf(loc.i).err)
              /\ ret.status = 500
              /\ ret.vehicles = <<>>
        /\ (pc = "canton" /\ CantonalOf(loc.i).raised) =>
              "road charge details" \in loc.vehicles[loc.i].keys
        /\ (pc \in {"canton", "harvest", "respond"} /\ loc.i <= Len(vd.vehicles)) =>
              ~FederalOf(loc.i).raised
        /\ pc \in {"harvest", "respond"} => \A k \in Charged : k \notin Failing

\* The federal charge of the vehicle was stored, then the cantonal engine
\* raised: the request has failed and its response carries no vehicle
C26_Witness ==
    /\ engine = "routes"
    /\ pc = "failed"
    /\ "road charge details" \in loc.vehicles[loc.i].keys
    /\ loc.vehicles[loc.i].road_charge_details = FederalOf(loc.i).result
    /\ CantonalOf(loc.i).raised
    /\ err = "Unsupported/unknown canton"
    /\ ret.status = 500
    /\ ret.vehicles = <<>>

\* Weights up to and around the first tonne
BernLightWeights == {1, 500, 999, 1000, 1001, 2000}

\* C27: for Bern a vehicle of at most 1000 kg pays exactly the first-1000-kg
\* base amount (240, or 120 for a BEV, before the BEV's reduction), and for a
\* fixed powertrain and year the annual tax is non-decreasing in the weight
\* over all positive weights.
C27_BernShape ==
    (CantonReturned /\ loc.canton \in BE /\ vd.resale_year >= vd.purchase_year
        /\ loc.weight_kg > 0) =>
        /\ loc.weight_kg <= 1000 =>
              \A i \in 1..Len(ret.per_year) :
                  ret.per_year[i].annual_tax_chf \in
                      (IF Upper(loc.pt) = S_BEV
                       THEN {RInt(120), RMul(RInt(120), Rat(40, 100))}
                       ELSE {RInt(240)})
        /\ \A lighter \in BernLightWeights, heavier \in BernLightWeights \cup {loc.weight_kg} :
              lighter <= heavier =>
                  RLe(_bern_annual(lighter, loc.pt, FirstRegistrationYear, loc.y0),
                      _bern_annual(heavier, loc.pt, FirstRegistrationYear, loc.y0))

----------------------------------------------------------------------------
(* Properties of the weight-driven formulas                                *)

\* C28: for Zuerich, Geneve, Vaud, Graubuenden, Valais, Basel-Landschaft and
\* Fribourg, with powertrain, Euro class and calendar year held fixed, the
\* annual tax is non-decreasing in weight_kg over all positive weights,
\* across every bracket boundary and tier change.
C28_NonDecreasingInWeight ==
    engine = "tariff" =>
        /\ loc.lighter_kg <= loc.weight_kg
        /\ RLe(loc.lighter_annual, loc.annual)
        /\ RLe(RZero, loc.annual)

\* Valais at 15001 kg, the first kilogram of its first flat band: 1500 after
\* 1032.50
C28_Witness ==
    /\ engine = "tariff"
    /\ loc.canton \in VS
    /\ loc.lighter_kg = 15000
    /\ loc.weight_kg = 15001
    /\ loc.lighter_annual = Rat(10325, 10)
    /\ loc.annual = RInt(1500)

----------------------------------------------------------------------------
(* Properties of the Euro class                                            *)

\* The Euro class in effect: the one given, else by the year of manufacture
EffectiveEra ==
    IF "euro_class" \in vd.keys THEN vd.euro_class
    ELSE IF vd.year >= 2014 THEN S_Euro6 ELSE S_Euro5

\* Euro 6 / VI, in Arabic or Roman numerals
DenotesModernEra(euro) == euro \in {S_Euro6, S_EuroVI}

\* C29: in canton_truck_tax the effective Euro class is the explicit
\* euro_class when given and otherwise 'Euro 6' for a manufacture year of
\* 2014 or later and 'Euro 5' before; Zuerich and Vaud apply their modern-era
\* treatment exactly when it denotes Euro 6/VI, in Arabic or Roman numerals,
\* and never for Euro 5.
C29_ModernEraTreatment ==
    (CantonReturned /\ loc.canton \in ZH \cup VD) =>
        /\ loc.euro = EffectiveEra
        /\ loc.canton \in ZH =>
              ret.annual_tax_chf =
                  RInt(SpecifiedZurich(loc.weight_kg,
                                       Upper(loc.pt) \in {S_BEV, S_FCEV},
                                       DenotesModernEra(EffectiveEra)))
        /\ loc.canton \in VD =>
              ret.annual_tax_chf =
                  Round(RMul(RInt(SpecifiedVaudBase(loc.weight_kg)),
                             IF Upper(loc.pt) = S_BEV THEN Rat(10, 100)
                             ELSE IF DenotesModernEra(EffectiveEra) THEN Rat(65, 100)
                             ELSE RInt(1)), 2)

----------------------------------------------------------------------------
(* Properties of the federal rates                                         *)

\* The rates of year y for a zero-emission vehicle, a modern and an older
\* diesel
ZeroEmissionRateOf(y) == rate_chf_per_tkm_for_year(S_BEV, FALSE, y).v
ModernRateOf(y) == rate_chf_per_tkm_for_year(S_ICEV_d, TRUE, y).v
OlderRateOf(y) == rate_chf_per_tkm_for_year(S_ICEV_d, FALSE, y).v

\* C30: in every year charged, the BEV/FCEV rate is at most the rate of a
\* modern diesel, gas or hybrid vehicle, which is at most the rate of an older
\* one; the BEV/FCEV rate does not decrease from one year to the next; and
\* every rate applied lies between 0 and Category I (0.0326).
C30_RateOrdering ==
    (engine = "federal" /\ loc # NoLoc) =>
        \A i \in 1..Len(loc.breakdown) :
            LET e == loc.breakdown[i]
            IN  /\ RLe(RZero, e.rate_chf_per_tkm)
                /\ RLe(e.rate_chf_per_tkm, CAT_I)
                /\ CAT_I = Rat(326, 10000)
                /\ RLe(ZeroEmissionRateOf(e.year), ModernRateOf(e.year))
                /\ RLe(ModernRateOf(e.year), OlderRateOf(e.year))
                /\ RLe(ZeroEmissionRateOf(e.year), ZeroEmissionRateOf(e.year + 1))
                /\ loc.pt \in {S_BEV, S_FCEV} =>
                      /\ e.rate_chf_per_tkm = ZeroEmissionRateOf(e.year)
                      /\ i > 1 => RLe(loc.breakdown[i - 1].rate_chf_per_tkm,
                                      e.rate_chf_per_tkm)
                /\ loc.pt \in FederalICE =>
                      e.rate_chf_per_tkm =
                          (IF loc.manuf_year >= 2014
                           THEN ModernRateOf(e.year) ELSE OlderRateOf(e.year))

\* An FCEV kept from 2034 to 2037: the rate rises from 80% to 90% of
\* Category III and then stays at Category III
C30_Witness ==
    /\ FederalReturned
    /\ loc.pt = S_FCEV
    /\ Len(ret.breakdown) = 3
    /\ ret.breakdown[1].year = 2034
    /\ ret.breakdown[1].rate_chf_per_tkm = RMul(CAT_III, Rat(8, 10))
    /\ ret.breakdown[2].rate_chf_per_tkm = RMul(CAT_III, Rat(9, 10))
    /\ ret.breakdown[3].rate_chf_per_tkm = CAT_III

============================================================================
